---- MODULE Spec2Model ----
(***************************************************************************)
(* Model of the MikroTik backup bot: the device registry (routerStore.js), *)
(* the remote session client (mikrotikService.js) and the backup cycle of  *)
(* index.js (sendBackup).                                                  *)
(***************************************************************************)
EXTENDS Integers, Sequences, FiniteSets, TLC

(***************************************************************************)
(* Bounds of the model.                                                    *)
(***************************************************************************)
MaxCalls == 2
MaxWriteFailures == 1
MaxCrashes == 1

(***************************************************************************)
(* Names are sequences of characters; "A" is the upper case of "a".        *)
(***************************************************************************)
Chars == {"a", "A", "b", " "}

NameInputs == {<<"a">>, <<"A">>, <<"b">>, <<" ", "a">>, <<" ">>}

Lower(c) == IF c = "A" THEN "a" ELSE c

RECURSIVE TrimLeft(_)
TrimLeft(s) == IF s # <<>> /\ Head(s) = " " THEN TrimLeft(Tail(s)) ELSE s

RECURSIVE TrimRight(_)
TrimRight(s) ==
    IF s # <<>> /\ s[Len(s)] = " " THEN TrimRight(SubSeq(s, 1, Len(s) - 1)) ELSE s

Trim(s) == TrimRight(TrimLeft(s))

ToLowerCase(s) == [i \in 1..Len(s) |-> Lower(s[i])]

NormName(s) == ToLowerCase(Trim(s))

(***************************************************************************)
(* The registry document routers.json and its temporary sibling.           *)
(***************************************************************************)
Missing == [kind |-> "missing", list |-> <<>>]
Partial == [kind |-> "partial", list |-> <<>>]
NotArray == [kind |-> "notarray", list |-> <<>>]
ListDoc(l) == [kind |-> "list", list |-> l]

InitDocs ==
    {Missing, Partial, NotArray, ListDoc(<<>>), ListDoc(<<<<"a">>>>),
     ListDoc(<<<<"a">>, <<"b">>>>)}

VARIABLES doc, tmp, procs, writeQueue, calls, initDoc, committed, wfails, crashes,
          atCrash

storeVars ==
    <<doc, tmp, procs, writeQueue, calls, initDoc, committed, wfails, crashes, atCrash>>

NoWrite == [active |-> FALSE, doc |-> Missing, old |-> Missing, new |-> <<>>]

(***************************************************************************)
(* addRouter: the duplicate check and the push.                            *)
(***************************************************************************)
HasDuplicate(routers, trimmedName) ==
    \E i \in 1..Len(routers) :
        routers[i] # <<>> /\ NormName(routers[i]) = ToLowerCase(trimmedName)

(* removeRouter: routers.filter((r) => r.name !== name) *)
FilterName(routers, name) ==
    LET Keep(r) == r # name IN SelectSeq(routers, Keep)

(* addRouter's synchronous validation before it enters the queue *)
ValidAddName(name) == name # <<>> /\ Trim(name) # <<>>

Settled(st) == st \in {"fulfilled", "rejected"}

NewProc(kind, arg, st, pc, saving) ==
    [kind |-> kind, arg |-> arg, st |-> st, pc |-> pc, local |-> <<>>,
     saving |-> saving, after |-> "none", child |-> 0, res |-> "none",
     coll |-> FALSE, obs |-> "none"]

(***************************************************************************)
(* The continuation of a caller once getRouters has returned the list l:   *)
(* synchronous up to the next await.                                       *)
(***************************************************************************)
AfterGet(p, l) ==
    CASE p.kind = "get" ->
            [p EXCEPT !.local = l, !.res = "ok", !.st = "fulfilled", !.pc = "done"]
      [] p.kind = "add" ->
            IF HasDuplicate(l, Trim(p.arg))
            THEN [p EXCEPT !.local = l, !.res = "dup", !.st = "fulfilled",
                           !.pc = "done"]
            ELSE [p EXCEPT !.local = l, !.saving = Append(l, Trim(p.arg)),
                           !.after = "resolve", !.pc = "s_exists"]
      [] OTHER ->
            IF Len(FilterName(l, p.arg)) = Len(l)
            THEN [p EXCEPT !.local = l, !.res = "notfound", !.st = "fulfilled",
                           !.pc = "done"]
            ELSE [p EXCEPT !.local = l, !.saving = FilterName(l, p.arg),
                           !.after = "resolve", !.pc = "s_exists"]

(***************************************************************************)
(* Init: the document found on disk, an empty promise chain, no calls.     *)
(***************************************************************************)
StoreInit ==
    /\ doc \in InitDocs
    /\ initDoc = doc
    /\ committed = doc
    /\ tmp = Missing
    /\ procs = <<>>
    /\ writeQueue = <<>>
    /\ calls = <<>>
    /\ wfails = 0
    /\ crashes = 0
    /\ atCrash = NoWrite

(***************************************************************************)
(* A call enters: addRouter / removeRouter chain a task onto writeQueue,   *)
(* getRouters runs outside the queue.                                      *)
(***************************************************************************)
CallAddRouter(name) ==
    /\ Len(calls) < MaxCalls
    /\ calls' = Append(calls, [op |-> "add", arg |-> name])
    /\ IF ValidAddName(name)
       THEN /\ procs' = Append(procs,
                   [NewProc("add", name, "pending", "g_exists", <<>>)
                       EXCEPT !.coll = doc.kind = "list"
                                         /\ HasDuplicate(doc.list, Trim(name))])
            /\ writeQueue' = Append(writeQueue, Len(procs) + 1)
       ELSE /\ procs' = Append(procs,
                   [NewProc("add", name, "fulfilled", "done", <<>>)
                       EXCEPT !.res = "invalid"])
            /\ UNCHANGED writeQueue
    /\ UNCHANGED <<doc, tmp, initDoc, committed, wfails, crashes, atCrash>>

CallRemoveRouter(name) ==
    /\ Len(calls) < MaxCalls
    /\ calls' = Append(calls, [op |-> "remove", arg |-> name])
    /\ procs' = Append(procs, NewProc("remove", name, "pending", "g_exists", <<>>))
    /\ writeQueue' = Append(writeQueue, Len(procs) + 1)
    /\ UNCHANGED <<doc, tmp, initDoc, committed, wfails, crashes, atCrash>>

CallGetRouters ==
    /\ Len(calls) < MaxCalls
    /\ calls' = Append(calls, [op |-> "get", arg |-> <<>>])
    /\ procs' = Append(procs, NewProc("get", <<>>, "running", "g_exists", <<>>))
    /\ UNCHANGED <<doc, tmp, writeQueue, initDoc, committed, wfails, crashes, atCrash>>

(***************************************************************************)
(* The promise chain: the task at position i starts once the promise it    *)
(* was chained onto has settled.  A .then() callback is skipped when that  *)
(* promise rejected; saveRouters' .catch() then removes the temp file and  *)
(* rethrows.                                                               *)
(***************************************************************************)
PredSettled(i) == IF i = 1 THEN TRUE ELSE Settled(procs[writeQueue[i - 1]].st)

PredRejected(i) == IF i = 1 THEN FALSE ELSE procs[writeQueue[i - 1]].st = "rejected"

QueueStart(i) ==
    /\ i \in 1..Len(writeQueue)
    /\ procs[writeQueue[i]].st = "pending"
    /\ PredSettled(i)
    /\ LET p == writeQueue[i] IN
       IF PredRejected(i)
       THEN /\ procs' = [procs EXCEPT ![p].st = "rejected", ![p].pc = "done",
                                    ![p].res = "skipped"]
            /\ tmp' = IF procs[p].kind = "write" THEN Missing ELSE tmp
       ELSE /\ procs' = [procs EXCEPT ![p].st = "running"]
            /\ UNCHANGED tmp
    /\ UNCHANGED <<doc, writeQueue, calls, initDoc, committed, wfails, crashes, atCrash>>

(***************************************************************************)
(* A queued write is between the start of its callback and its rename.     *)
(* Observe records that a caller found the target absent in that window.   *)
(***************************************************************************)
WriteInProgress ==
    \E w \in 1..Len(procs) : procs[w].kind = "write" /\ procs[w].st = "running"

Observe(obs) == IF doc.kind = "missing" /\ WriteInProgress THEN "missing" ELSE obs

Running(p, pc) ==
    /\ p \in 1..Len(procs)
    /\ procs[p].st = "running"
    /\ procs[p].pc = pc

(***************************************************************************)
(* ensureStore, as called by getRouters ("g_") and by saveRouters ("s_"):  *)
(* pathExists, then writeJSON(routersPath, []) when the file is absent.    *)
(* writeJSON opens the file truncated and then writes its content.         *)
(***************************************************************************)
EnsureStoreExists(p) ==
    /\ \/ Running(p, "g_exists")
       \/ Running(p, "s_exists")
    /\ LET g == procs[p].pc = "g_exists" IN
       procs' = [procs EXCEPT ![p].pc =
                    IF doc.kind = "missing"
                    THEN (IF g THEN "g_create" ELSE "s_create")
                    ELSE (IF g THEN "g_read" ELSE "s_enqueue"),
                              ![p].obs = Observe(procs[p].obs)]
    /\ UNCHANGED <<doc, tmp, writeQueue, calls, initDoc, committed, wfails, crashes, atCrash>>

EnsureStoreOpen(p) ==
    /\ \/ Running(p, "g_create")
       \/ Running(p, "s_create")
    /\ doc' = Partial
    /\ procs' = [procs EXCEPT ![p].pc =
                    IF procs[p].pc = "g_create" THEN "g_create2" ELSE "s_create2"]
    /\ UNCHANGED <<tmp, writeQueue, calls, initDoc, committed, wfails, crashes, atCrash>>

EnsureStoreWrite(p) ==
    /\ \/ Running(p, "g_create2")
       \/ Running(p, "s_create2")
    /\ doc' = ListDoc(<<>>)
    /\ committed' = doc'
    /\ procs' = [procs EXCEPT ![p].pc =
                    IF procs[p].pc = "g_create2" THEN "g_read" ELSE "s_enqueue"]
    /\ UNCHANGED <<tmp, writeQueue, calls, initDoc, wfails, crashes, atCrash>>

(* getRouters without the reset of lines 24 and 32 *)
GetRoutersReadNoReset(p) ==
    /\ Running(p, "g_read")
    /\ procs' = [procs EXCEPT ![p] =
                    AfterGet(procs[p], IF doc.kind = "list" THEN doc.list ELSE <<>>)]
    /\ UNCHANGED <<doc, tmp, writeQueue, calls, initDoc, committed, wfails, crashes, atCrash>>

(***************************************************************************)
(* getRouters: readJSON; a list is returned, anything else (ENOENT, a      *)
(* SyntaxError, a non-array) is reset through saveRouters([]).             *)
(***************************************************************************)
GetRoutersRead(p) ==
    /\ Running(p, "g_read")
    /\ procs' = [procs EXCEPT ![p] =
                    IF doc.kind = "list"
                    THEN AfterGet(procs[p], doc.list)
                    ELSE [procs[p] EXCEPT !.saving = <<>>, !.after = "reset",
                                          !.pc = "s_exists",
                                          !.obs = Observe(procs[p].obs)]]
    /\ UNCHANGED <<doc, tmp, writeQueue, calls, initDoc, committed, wfails, crashes, atCrash>>

(***************************************************************************)
(* saveRouters: writeQueue = writeQueue.then(write).catch(...); then       *)
(* await writeQueue.                                                       *)
(***************************************************************************)
SaveRoutersEnqueue(p) ==
    /\ Running(p, "s_enqueue")
    /\ LET w == Len(procs) + 1 IN
       /\ procs' = Append([procs EXCEPT ![p].pc = "s_await", ![p].child = w],
                          NewProc("write", <<>>, "pending", "w_tmp", procs[p].saving))
       /\ writeQueue' = Append(writeQueue, w)
    /\ UNCHANGED <<doc, tmp, calls, initDoc, committed, wfails, crashes, atCrash>>

SaveRoutersAwait(p) ==
    /\ Running(p, "s_await")
    /\ Settled(procs[procs[p].child].st)
    /\ procs' = [procs EXCEPT ![p] =
                    IF procs[procs[p].child].st = "rejected"
                    THEN [procs[p] EXCEPT !.res = "err", !.st = "fulfilled",
                                          !.pc = "done"]
                    ELSE IF procs[p].after = "reset"
                         THEN AfterGet(procs[p], <<>>)
                         ELSE [procs[p] EXCEPT !.res = "ok", !.st = "fulfilled",
                                               !.pc = "done"]]
    /\ UNCHANGED <<doc, tmp, writeQueue, calls, initDoc, committed, wfails, crashes, atCrash>>

(***************************************************************************)
(* The queued write of saveRouters: write the temp file, remove the target *)
(* when it exists, rename the temp file onto the target.                   *)
(***************************************************************************)
WriteTemp(p) ==
    /\ Running(p, "w_tmp")
    /\ tmp' = ListDoc(procs[p].saving)
    /\ procs' = [procs EXCEPT ![p].pc = "w_exists"]
    /\ UNCHANGED <<doc, writeQueue, calls, initDoc, committed, wfails, crashes, atCrash>>

WriteTempFails(p) ==
    /\ Running(p, "w_tmp")
    /\ wfails < MaxWriteFailures
    /\ wfails' = wfails + 1
    /\ tmp' = Missing
    /\ procs' = [procs EXCEPT ![p].st = "rejected", ![p].pc = "done"]
    /\ UNCHANGED <<doc, writeQueue, calls, initDoc, committed, crashes, atCrash>>

WriteExists(p) ==
    /\ Running(p, "w_exists")
    /\ procs' = [procs EXCEPT ![p].pc =
                    IF doc.kind # "missing" THEN "w_remove" ELSE "w_rename"]
    /\ UNCHANGED <<doc, tmp, writeQueue, calls, initDoc, committed, wfails, crashes, atCrash>>

WriteRemove(p) ==
    /\ Running(p, "w_remove")
    /\ doc' = Missing
    /\ procs' = [procs EXCEPT ![p].pc = "w_rename"]
    /\ UNCHANGED <<tmp, writeQueue, calls, initDoc, committed, wfails, crashes, atCrash>>

WriteRename(p) ==
    /\ Running(p, "w_rename")
    /\ doc' = tmp
    /\ committed' = doc'
    /\ tmp' = Missing
    /\ procs' = [procs EXCEPT ![p].st = "fulfilled", ![p].pc = "done"]
    /\ UNCHANGED <<writeQueue, calls, initDoc, wfails, crashes, atCrash>>

StoreStep ==
    \/ \E i \in 1..Len(writeQueue) : QueueStart(i)
    \/ \E p \in 1..Len(procs) :
          \/ EnsureStoreExists(p)
          \/ EnsureStoreOpen(p)
          \/ EnsureStoreWrite(p)
          \/ GetRoutersRead(p)
          \/ SaveRoutersEnqueue(p)
          \/ SaveRoutersAwait(p)
          \/ WriteTemp(p)
          \/ WriteTempFails(p)
          \/ WriteExists(p)
          \/ WriteRemove(p)
          \/ WriteRename(p)

(***************************************************************************)
(* The process dies and is started again: the promise chain and the calls  *)
(* are gone, the files stay as they are.                                   *)
(***************************************************************************)
WritesInFlight ==
    {w \in 1..Len(procs) :
        /\ procs[w].kind = "write"
        /\ procs[w].st = "running"
        /\ procs[w].pc \in {"w_exists", "w_remove", "w_rename"}}

Crash ==
    /\ crashes < MaxCrashes
    /\ procs # <<>>
    /\ crashes' = crashes + 1
    /\ atCrash' = IF WritesInFlight = {}
                  THEN NoWrite
                  ELSE LET w == CHOOSE x \in WritesInFlight : TRUE IN
                       [active |-> TRUE, doc |-> doc, old |-> committed,
                        new |-> procs[w].saving]
    /\ procs' = <<>>
    /\ writeQueue' = <<>>
    /\ calls' = <<>>
    /\ initDoc' = doc
    /\ committed' = doc
    /\ UNCHANGED <<doc, tmp, wfails>>

StoreNext ==
    \/ \E name \in NameInputs : CallAddRouter(name)
    \/ \E name \in NameInputs : CallRemoveRouter(name)
    \/ CallGetRouters
    \/ StoreStep
    \/ Crash

(***************************************************************************)
(* The registry as the calls would leave it when applied one at a time:    *)
(* addRouter appends the trimmed name unless it collides, removeRouter     *)
(* filters the name out.                                                   *)
(***************************************************************************)
ApplyCall(l, c) ==
    CASE c.op = "add" ->
            IF ValidAddName(c.arg) /\ ~HasDuplicate(l, Trim(c.arg))
            THEN Append(l, Trim(c.arg))
            ELSE l
      [] c.op = "remove" -> FilterName(l, c.arg)
      [] OTHER -> l

RECURSIVE SerialResults(_, _)
SerialResults(l, S) ==
    IF S = {}
    THEN {l}
    ELSE UNION {SerialResults(ApplyCall(l, calls[i]), S \ {i}) : i \in S}

BaseList == IF initDoc.kind = "list" THEN initDoc.list ELSE <<>>

MutatingCalls ==
    {i \in 1..Len(calls) :
        \/ calls[i].op = "add" /\ ValidAddName(calls[i].arg)
        \/ calls[i].op = "remove"}

StoreQuiescent == ~ENABLED StoreStep

(* C1: once nothing of the store can run any more, the stored list is the  *)
(* result of applying the issued addRouter and removeRouter calls one at a *)
(* time in some order: no update is lost.                                  *)
C1_NoLostUpdate ==
    (StoreQuiescent /\ MutatingCalls # {} /\ wfails = 0 /\ crashes = 0)
        => /\ doc.kind = "list"
           /\ doc.list \in SerialResults(BaseList, MutatingCalls)

NoDuplicateNames(l) ==
    \A i, j \in 1..Len(l) : i # j => NormName(l[i]) # NormName(l[j])

(* C2: no two stored devices have names equal after trimming and lower-    *)
(* casing, and an addRouter whose name collides with a stored device has   *)
(* failed with the duplicate-name error, the stored list unchanged, once   *)
(* the store has come to rest.                                             *)
C2_DuplicateAddFails ==
    /\ doc.kind = "list" => NoDuplicateNames(doc.list)
    /\ (StoreQuiescent /\ wfails = 0 /\ crashes = 0)
          => \A p \in 1..Len(procs) :
                (/\ procs[p].kind = "add"
                 /\ procs[p].coll
                 /\ \A i \in 1..Len(calls) : calls[i].op = "add")
                    => procs[p].res = "dup" /\ doc = initDoc

(* C3: a crash during a queued write leaves the target holding either the  *)
(* document of the last completed write or the complete new document,      *)
(* never a missing or truncated one.                                       *)
C3_CrashLeavesOldOrNew ==
    atCrash.active => atCrash.doc \in {atCrash.old, ListDoc(atCrash.new)}

(* C4: a getRouters call outside the write queue never observes the target *)
(* missing while a queued write is in progress.                            *)
C4_ReaderNeverSeesMissing ==
    \A p \in 1..Len(procs) : procs[p].kind = "get" => procs[p].obs # "missing"

(* the stored devices whose name, trimmed and lower-cased, is not that of  *)
(* the input                                                               *)
WithoutName(l, name) ==
    LET Other(r) == NormName(r) # NormName(name) IN SelectSeq(l, Other)

(* C20: a removeRouter call on its own removes the stored device whose     *)
(* trimmed, lower-cased name is that of the trimmed, lower-cased input and *)
(* keeps the others in order; when no stored device matches it fails with  *)
(* the not-found error and the stored list is as it was.                   *)
C20_RemoveByNormalizedName ==
    (/\ StoreQuiescent
     /\ wfails = 0
     /\ crashes = 0
     /\ Len(calls) = 1
     /\ calls[1].op = "remove"
     /\ initDoc.kind = "list")
        => IF WithoutName(initDoc.list, calls[1].arg) # initDoc.list
           THEN /\ procs[1].res = "ok"
                /\ doc = ListDoc(WithoutName(initDoc.list, calls[1].arg))
           ELSE /\ procs[1].res = "notfound"
                /\ doc = initDoc

(* the getRouters calls issued outside the queue that have returned        *)
ReturnedGets ==
    {p \in 1..Len(procs) : procs[p].kind = "get" /\ procs[p].pc = "done"}

QueuedCalls ==
    {p \in 1..Len(procs) : procs[p].kind \in {"add", "remove"}}

(* the getRouters calls outside the queue that found the target absent     *)
(* while a queued write was between its remove and its rename              *)
OverlappingGets ==
    {p \in 1..Len(procs) : procs[p].kind = "get" /\ procs[p].obs = "missing"}

(* C34: a getRouters call that overlaps a queued write does not change the *)
(* stored registry: it neither writes the empty list onto the target       *)
(* itself nor queues a reset to the empty list.                            *)
C34_ReadLeavesRegistry ==
    \A p \in OverlappingGets :
        /\ procs[p].pc \notin {"g_create", "g_create2"}
        /\ procs[p].after # "reset"

(* the tasks of the write queue whose callback was passed over because    *)
(* the promise they were chained onto had rejected                         *)
SkippedTasks == {p \in 1..Len(procs) : procs[p].res = "skipped"}

(* C33: a failed write does not wedge the registry: every task chained     *)
(* onto the write queue after it still runs its own callback, so a later   *)
(* saveRouters makes its own write attempt and a later addRouter or        *)
(* removeRouter settles with its own result.                               *)
C33_FailedWriteDoesNotWedge == SkippedTasks = {}

(* C31: every addRouter or removeRouter call that passed its validation    *)
(* settles when every filesystem call returns: as long as such a call has  *)
(* not settled, some step of the store can run.                            *)
C31_QueuedCallsSettle ==
    (\E p \in QueuedCalls : ~Settled(procs[p].st)) => ENABLED StoreStep



(***************************************************************************)
(* sanitizeError: replace(/password[=:]\s*['"]?[^'"]*['"]?/gi,             *)
(* 'password=***').  Error texts are sequences of tokens: "P" is the word  *)
(* password (in any case), "'" a quote character, "x" any other character. *)
(***************************************************************************)
Placeholder == <<"P", "=", "*", "*", "*">>

RECURSIVE SkipWhile(_, _, _)
SkipWhile(s, i, set) ==
    IF i <= Len(s) /\ s[i] \in set THEN SkipWhile(s, i + 1, set) ELSE i

SkipOne(s, i, set) == IF i <= Len(s) /\ s[i] \in set THEN i + 1 ELSE i

ErrChars == {"P", "=", ":", " ", "'", "x", "*"}

(* the index after a match of the pattern that starts at i *)
MatchEnd(s, i) ==
    LET afterSpace == SkipWhile(s, i + 2, {" "})
        afterQuote == SkipOne(s, afterSpace, {"'"})
        afterValue == SkipWhile(s, afterQuote, ErrChars \ {"'"})
    IN SkipOne(s, afterValue, {"'"})

MatchesAt(s, i) == i + 1 <= Len(s) /\ s[i] = "P" /\ s[i + 1] \in {"=", ":"}

RECURSIVE SanitizeFrom(_, _)
SanitizeFrom(s, i) ==
    IF i > Len(s)
    THEN <<>>
    ELSE IF MatchesAt(s, i)
         THEN Placeholder \o SanitizeFrom(s, MatchEnd(s, i))
         ELSE <<s[i]>> \o SanitizeFrom(s, i + 1)

sanitizeError(s) == SanitizeFrom(s, 1)

(***************************************************************************)
(* The backup cycle: sendBackup of index.js with performBackup of          *)
(* mikrotikService.js inlined at its await.                                *)
(***************************************************************************)
MaxCycles == 4
failureThreshold == 3

(* messaging calls of a cycle are counted up to this number *)
MaxCounted == 2

DeviceNames == {<<"a">>, <<"b">>}

RegistryInputs == {<<>>, <<<<"a">>>>, <<<<"a">>, <<"b">>>>}

RequestInputs == {<<>>, <<"a">>, <<"b">>}

(* errors a remote step can fail with: net is isNetworkError(err) *)
ErrorInputs ==
    {[net |-> TRUE, msg |-> <<"x">>],
     [net |-> FALSE, msg |-> <<"x", " ", "P", "=", "x">>]}

NoErr == [net |-> FALSE, msg |-> <<>>]

SendResults == {"ok", "net", "other"}

VARIABLES registry, defaultChatId, cyc, started, routerFailureCounts,
          lastBackupMeta, alerts, runHistory, openSessions, probe, streak

cycleVars ==
    <<registry, defaultChatId, cyc, started, routerFailureCounts, lastBackupMeta,
      alerts, runHistory, streak>>

sessionVars == <<openSessions, probe>>

NotSent == [backup |-> "none", export |-> "none"]

(* the error text of the message sent by the last step, with the text it   *)
(* was made from                                                           *)
NoText == [kind |-> "none", raw |-> <<>>, text |-> <<>>]

ErrorText(kind, raw, text) == [kind |-> kind, raw |-> raw, text |-> text]

(* docErr.message of a failed sendDocument *)
DocumentErrorMsg == <<"x", " ", "P", ":", "x">>

(***************************************************************************)
(* The position and the locals of sendBackup.  Beside the code's locals    *)
(* (targets, i, summary, err) a cycle keeps a record of what happened:     *)
(* steps and attempts of performBackup, msgs the number of messaging calls *)
(* made, allFailed whether every one of them failed, sent the results of   *)
(* the two sendDocument calls of the current device, marks what is known   *)
(* of each device of the loop beyond its entry in summary, out the error   *)
(* text of the message the last step sent.                                 *)
(***************************************************************************)
IdleCycle ==
    [pc |-> "idle", targets |-> <<>>, i |-> 0, summary |-> <<>>, err |-> NoErr,
     steps |-> <<>>, attempts |-> <<>>, k |-> 0,
     reported |-> [success |-> 0, failed |-> 0],
     msgs |-> 0, allFailed |-> TRUE, sent |-> NotSent, marks |-> <<>>,
     out |-> NoText]

Counted(n) == IF n < MaxCounted THEN n + 1 ELSE n

(* an awaited bot.sendMessage / bot.sendDocument has settled *)
Messaged(cy, ok) ==
    [cy EXCEPT !.msgs = Counted(@), !.allFailed = @ /\ ~ok]

CycleInit ==
    /\ registry \in RegistryInputs
    /\ defaultChatId \in BOOLEAN
    /\ cyc = IdleCycle
    /\ started = 0
    /\ openSessions = {}
    /\ probe = [pc |-> "idle"]
    /\ routerFailureCounts = [n \in DeviceNames |-> 0]
    /\ lastBackupMeta = [cycle |-> 0, routers |-> <<>>]
    /\ alerts = <<>>
    /\ runHistory = <<>>
    /\ streak = [n \in DeviceNames |-> 0]

Active == cyc.pc \notin {"idle", "done", "rejected"}

(* a variant that opens the transfer channel before the export command *)
StepOrderSwapped ==
    <<"cmdBackup", "sftp", "cmdExport", "getBackup", "getExport", "rmBackup",
      "rmExport">>

(* the steps of performBackup after connectSsh, in the order of the code *)
StepOrder ==
    <<"cmdBackup", "cmdExport", "sftp", "getBackup", "getExport", "rmBackup",
      "rmExport">>

StepIndex(pc) == CHOOSE n \in 1..Len(StepOrder) : StepOrder[n] = pc

(* a variant that never ends the connection *)
EndSessionLeak(sessions, c) == sessions

(* finally { conn.end() } *)
EndSession(sessions, c) == {x \in sessions : x[1] # c}

(* for (const router of targetRouters): the next iteration, or the end of  *)
(* the loop                                                                *)
NextDevice(cy) ==
    IF cy.i < Len(cy.targets)
    THEN [cy EXCEPT !.i = cy.i + 1, !.pc = "connect", !.steps = <<>>, !.err = NoErr]
    ELSE [cy EXCEPT !.pc = "aggregate"]

SuccessOutcome(name) ==
    [name |-> Trim(name), success |-> TRUE, error |-> <<>>,
     backupPath |-> <<name, "backup">>, exportPath |-> <<name, "export">>]

(* a variant that stores the raw error text *)
FailureOutcomeRaw(name, e) ==
    [name |-> Trim(name), success |-> FALSE, error |-> e.msg,
     backupPath |-> <<>>, exportPath |-> <<>>]

FailureOutcome(name, e) ==
    [name |-> Trim(name), success |-> FALSE, error |-> sanitizeError(e.msg),
     backupPath |-> <<>>, exportPath |-> <<>>]

(***************************************************************************)
(* sendBackup up to the device loop: getRouters, the two early returns,    *)
(* the choice of the targets.                                              *)
(***************************************************************************)
TargetRouters(routerName) ==
    IF routerName = <<>>
    THEN registry
    ELSE LET Named(r) == r = routerName IN SelectSeq(registry, Named)

StartCycle(c, routerName) ==
    /\ c = started + 1
    /\ c <= MaxCycles
    /\ ~Active
    /\ started' = c
    /\ cyc' = IF TargetRouters(routerName) = <<>>
              THEN [IdleCycle EXCEPT !.pc = "early"]
              ELSE [IdleCycle EXCEPT !.pc = "notify",
                                     !.targets = TargetRouters(routerName)]
    /\ alerts' = <<>>
    /\ UNCHANGED <<registry, defaultChatId, openSessions, probe, routerFailureCounts,
                   lastBackupMeta, runHistory, streak>>

(* a variant of the early return that goes on to the start notification *)
EarlyReturnGoesOn(c) ==
    /\ c = started /\ cyc.pc = "early"
    /\ \E ok \in BOOLEAN : cyc' = [Messaged(cyc, ok) EXCEPT !.pc = "notify"]
    /\ UNCHANGED <<registry, defaultChatId, started, openSessions, probe,
                   routerFailureCounts, lastBackupMeta, alerts, runHistory, streak>>

(* the message of an early return has been sent and sendBackup returns, or *)
(* it has failed and sendBackup rejects                                    *)
EarlyReturn(c) ==
    /\ c = started /\ cyc.pc = "early"
    /\ \E ok \in BOOLEAN :
          cyc' = [Messaged(cyc, ok) EXCEPT !.pc = IF ok THEN "done" ELSE "rejected"]
    /\ UNCHANGED <<registry, defaultChatId, started, openSessions, probe,
                   routerFailureCounts, lastBackupMeta, alerts, runHistory, streak>>

(* a variant without the try around the start notification *)
NotifyStartUnguarded(c) ==
    /\ c = started /\ cyc.pc = "notify"
    /\ \E ok \in BOOLEAN :
          cyc' = IF ok
                 THEN NextDevice(Messaged(cyc, ok))
                 ELSE [Messaged(cyc, ok) EXCEPT !.pc = "rejected"]
    /\ UNCHANGED <<registry, defaultChatId, started, openSessions, probe,
                   routerFailureCounts, lastBackupMeta, alerts, runHistory, streak>>

(* the start notification has been sent, or has failed: the loop begins *)
NotifyStart(c) ==
    /\ c = started /\ cyc.pc = "notify"
    /\ \E ok \in BOOLEAN : cyc' = NextDevice(Messaged(cyc, ok))
    /\ UNCHANGED <<registry, defaultChatId, started, openSessions, probe,
                   routerFailureCounts, lastBackupMeta, alerts, runHistory, streak>>

(***************************************************************************)
(* performBackup: connectSsh outside the try, then the commands, the sftp  *)
(* channel and the downloads inside it, the two removals each in its own   *)
(* try/catch, conn.end() in the finally.                                   *)
(***************************************************************************)
Connect(c) ==
    /\ c = started /\ cyc.pc = "connect"
    /\ \/ /\ openSessions' = openSessions \cup {<<c, cyc.i>>}
          /\ cyc' = [cyc EXCEPT !.pc = "cmdBackup", !.out = NoText,
                                !.steps = Append(@, "connect")]
       \/ \E e \in ErrorInputs :
             /\ cyc' = [cyc EXCEPT !.pc = "catch", !.err = e, !.out = NoText,
                                   !.steps = Append(@, "connect"),
                                   !.attempts = Append(@, [ok |-> FALSE, err |-> e])]
             /\ UNCHANGED openSessions
    /\ UNCHANGED <<registry, defaultChatId, started, routerFailureCounts, probe,
                   lastBackupMeta, alerts, runHistory, streak>>

(* a variant without the finally: conn.end() only on the success path *)
RemoteStepNoFinally(c) ==
    /\ c = started /\ cyc.pc \in {"cmdBackup", "cmdExport", "sftp", "getBackup", "getExport"}
    /\ \/ /\ cyc' = [cyc EXCEPT !.pc = StepOrder[StepIndex(cyc.pc) + 1],
                                !.steps = Append(@, cyc.pc)]
          /\ UNCHANGED openSessions
       \/ \E e \in ErrorInputs :
             /\ cyc' = [cyc EXCEPT !.pc = "catch", !.err = e,
                                   !.steps = Append(@, cyc.pc) \o <<"end">>,
                                   !.attempts = Append(@, [ok |-> FALSE, err |-> e])]
             /\ UNCHANGED openSessions
    /\ UNCHANGED <<registry, defaultChatId, started, routerFailureCounts, probe,
                   lastBackupMeta, alerts, runHistory, streak>>

RemoteStep(c) ==
    /\ c = started /\ cyc.pc \in {"cmdBackup", "cmdExport", "sftp", "getBackup", "getExport"}
    /\ \/ /\ cyc' = [cyc EXCEPT !.pc = StepOrder[StepIndex(cyc.pc) + 1],
                                !.steps = Append(@, cyc.pc)]
          /\ UNCHANGED openSessions
       \/ \E e \in ErrorInputs :
             /\ cyc' = [cyc EXCEPT !.pc = "catch", !.err = e,
                                   !.steps = Append(@, cyc.pc) \o <<"end">>,
                                   !.attempts = Append(@, [ok |-> FALSE, err |-> e])]
             /\ openSessions' = EndSession(openSessions, c)
    /\ UNCHANGED <<registry, defaultChatId, started, routerFailureCounts, probe,
                   lastBackupMeta, alerts, runHistory, streak>>

(* /file remove: a failure is only logged *)
RemoveRemoteBackup(c) ==
    /\ c = started /\ cyc.pc = "rmBackup"
    /\ cyc' = [cyc EXCEPT !.pc = "rmExport", !.steps = Append(@, "rmBackup")]
    /\ UNCHANGED <<registry, defaultChatId, started, openSessions, probe,
                   routerFailureCounts, lastBackupMeta, alerts, runHistory, streak>>

RemoveRemoteExport(c) ==
    /\ c = started /\ cyc.pc = "rmExport"
    /\ cyc' = [cyc EXCEPT !.pc = "sendBackupDoc",
                          !.steps = Append(@, "rmExport") \o <<"end">>,
                          !.attempts = Append(@, [ok |-> TRUE, err |-> NoErr])]
    /\ openSessions' = EndSession(openSessions, c)
    /\ UNCHANGED <<registry, defaultChatId, started, routerFailureCounts, probe,
                   lastBackupMeta, alerts, runHistory, streak>>

(***************************************************************************)
(* The deliveries of a successful attempt: sendDocument for the snapshot,  *)
(* then for the export; a failure that is not a network error is reported  *)
(* with one more message.  Then summary.push of the success.               *)
(***************************************************************************)
(* a variant in which a failed snapshot delivery fails the device *)
SendBackupDocumentFatal(c) ==
    /\ c = started /\ cyc.pc = "sendBackupDoc"
    /\ \E r \in SendResults :
          cyc' = [Messaged(cyc, r = "ok") EXCEPT
                     !.sent = IF r = "ok" THEN [@ EXCEPT !.backup = r] ELSE NotSent,
                     !.err = IF r = "ok" THEN @ ELSE [net |-> r = "net", msg |-> <<"x">>],
                     !.pc = IF r = "ok" THEN "sendExportDoc" ELSE "catch"]
    /\ UNCHANGED <<registry, defaultChatId, started, openSessions, probe,
                   routerFailureCounts, lastBackupMeta, alerts, runHistory, streak>>

SendBackupDocument(c) ==
    /\ c = started /\ cyc.pc = "sendBackupDoc"
    /\ \E r \in SendResults :
          cyc' = [Messaged(cyc, r = "ok") EXCEPT
                     !.sent.backup = r,
                     !.pc = IF r = "other" THEN "backupDocMsg" ELSE "sendExportDoc"]
    /\ UNCHANGED <<registry, defaultChatId, started, openSessions, probe,
                   routerFailureCounts, lastBackupMeta, alerts, runHistory, streak>>

(* a variant that sends docErr.message as it is *)
BackupDocumentMessageRaw(c) ==
    /\ c = started /\ cyc.pc = "backupDocMsg"
    /\ \E ok \in BOOLEAN :
          cyc' = [Messaged(cyc, ok) EXCEPT
                     !.pc = "sendExportDoc",
                     !.out = ErrorText("delivery", DocumentErrorMsg, DocumentErrorMsg)]
    /\ UNCHANGED <<registry, defaultChatId, started, openSessions, probe,
                   routerFailureCounts, lastBackupMeta, alerts, runHistory, streak>>

BackupDocumentMessage(c) ==
    /\ c = started /\ cyc.pc = "backupDocMsg"
    /\ \E ok \in BOOLEAN :
          cyc' = [Messaged(cyc, ok) EXCEPT
                     !.pc = "sendExportDoc",
                     !.out = ErrorText("delivery", DocumentErrorMsg,
                                       sanitizeError(DocumentErrorMsg))]
    /\ UNCHANGED <<registry, defaultChatId, started, openSessions, probe,
                   routerFailureCounts, lastBackupMeta, alerts, runHistory, streak>>

Delivered(sent) == sent.backup = "ok" /\ sent.export = "ok"

(* the failing step of performBackup was one of the two downloads *)
RetrievalFailed(steps) ==
    /\ Len(steps) >= 2
    /\ steps[Len(steps) - 1] \in {"getBackup", "getExport"}

PushSuccess(cy) ==
    NextDevice([cy EXCEPT !.summary = Append(@, SuccessOutcome(cy.targets[cy.i])),
                          !.marks = Append(@, [delivered |-> Delivered(cy.sent),
                                               retrieval |-> FALSE]),
                          !.sent = NotSent])

SendExportDocument(c) ==
    /\ c = started /\ cyc.pc = "sendExportDoc"
    /\ \E r \in SendResults :
          LET cy == [Messaged(cyc, r = "ok") EXCEPT !.sent.export = r,
                                                    !.out = NoText] IN
          /\ cyc' = IF r = "other"
                    THEN [cy EXCEPT !.pc = "exportDocMsg"]
                    ELSE PushSuccess(cy)
          /\ streak' = IF r = "other"
                       THEN streak
                       ELSE [streak EXCEPT ![Trim(cyc.targets[cyc.i])] = 0]
    /\ UNCHANGED <<registry, defaultChatId, started, openSessions, probe,
                   routerFailureCounts, lastBackupMeta, alerts, runHistory>>

ExportDocumentMessage(c) ==
    /\ c = started /\ cyc.pc = "exportDocMsg"
    /\ \E ok \in BOOLEAN :
          cyc' = [PushSuccess(Messaged(cyc, ok)) EXCEPT
                     !.out = ErrorText("delivery", DocumentErrorMsg,
                                       sanitizeError(DocumentErrorMsg))]
    /\ streak' = [streak EXCEPT ![Trim(cyc.targets[cyc.i])] = 0]
    /\ UNCHANGED <<registry, defaultChatId, started, openSessions, probe,
                   routerFailureCounts, lastBackupMeta, alerts, runHistory>>

(***************************************************************************)
(* catch (err) of the device loop: summary.push of the failure, and the    *)
(* per-device message unless the error is a network error.                 *)
(***************************************************************************)
PushFailure(cy) ==
    [cy EXCEPT !.summary = Append(@, FailureOutcome(cy.targets[cy.i], cy.err)),
               !.marks = Append(@, [delivered |-> FALSE,
                                    retrieval |-> RetrievalFailed(cy.steps)])]

(* a variant that sends the per-device message for every failure *)
CatchBackupErrorAlwaysReports(c) ==
    /\ c = started /\ cyc.pc = "catch"
    /\ cyc' = [PushFailure(cyc) EXCEPT !.pc = "failMsg"]
    /\ streak' = [streak EXCEPT ![Trim(cyc.targets[cyc.i])] = @ + 1]
    /\ UNCHANGED <<registry, defaultChatId, started, openSessions, probe,
                   routerFailureCounts, lastBackupMeta, alerts, runHistory>>

CatchBackupError(c) ==
    /\ c = started /\ cyc.pc = "catch"
    /\ cyc' = IF cyc.err.net
              THEN NextDevice(PushFailure(cyc))
              ELSE [PushFailure(cyc) EXCEPT !.pc = "failMsg"]
    /\ streak' = [streak EXCEPT ![Trim(cyc.targets[cyc.i])] = @ + 1]
    /\ UNCHANGED <<registry, defaultChatId, started, openSessions, probe,
                   routerFailureCounts, lastBackupMeta, alerts, runHistory>>

FailureMessage(c) ==
    /\ c = started /\ cyc.pc = "failMsg"
    /\ \E ok \in BOOLEAN :
          cyc' = [NextDevice(Messaged(cyc, ok)) EXCEPT
                     !.out = ErrorText("failure", cyc.err.msg,
                                       cyc.summary[Len(cyc.summary)].error)]
    /\ UNCHANGED <<registry, defaultChatId, started, openSessions, probe,
                   routerFailureCounts, lastBackupMeta, alerts, runHistory, streak>>

(***************************************************************************)
(* After the loop: lastBackupMeta, then the failure counts and the alerts. *)
(* The loop over the summary runs without interruption up to the await of  *)
(* an alert's sendMessage.                                                 *)
(***************************************************************************)
(* a variant that alerts only when the threshold is crossed *)
ShouldAlertOnce(newFailures) == newFailures = failureThreshold /\ defaultChatId

ShouldAlert(newFailures) == newFailures >= failureThreshold /\ defaultChatId

(* a variant that leaves the count of a successful device as it was *)
KeepCount(counts, name) == counts

(* routerFailureCounts.set(routerResult.name, 0) *)
ResetCount(counts, name) == [counts EXCEPT ![name] = 0]

(* a variant that stores the new count only after the alert was sent *)
RECURSIVE UpdateFailureCountsDeferred(_, _, _, _, _)
UpdateFailureCountsDeferred(summary, k, counts, sent, c) ==
    IF k > Len(summary)
    THEN [k |-> k, counts |-> counts, alerts |-> sent, wait |-> FALSE]
    ELSE LET r == summary[k] IN
         IF r.success
         THEN UpdateFailureCountsDeferred(summary, k + 1, ResetCount(counts, r.name),
                                          sent, c)
         ELSE LET newFailures == counts[r.name] + 1
                  counts2 == [counts EXCEPT ![r.name] = newFailures]
              IN IF ShouldAlert(newFailures)
                 THEN [k |-> k, counts |-> counts,
                       alerts |-> Append(sent, [cycle |-> c, name |-> r.name,
                                                count |-> newFailures,
                                                error |-> r.error]),
                       wait |-> TRUE]
                 ELSE UpdateFailureCountsDeferred(summary, k + 1, counts2, sent, c)

RECURSIVE UpdateFailureCounts(_, _, _, _, _)
UpdateFailureCounts(summary, k, counts, sent, c) ==
    IF k > Len(summary)
    THEN [k |-> k, counts |-> counts, alerts |-> sent, wait |-> FALSE]
    ELSE LET r == summary[k] IN
         IF r.success
         THEN UpdateFailureCounts(summary, k + 1, ResetCount(counts, r.name),
                                  sent, c)
         ELSE LET newFailures == counts[r.name] + 1
                  counts2 == [counts EXCEPT ![r.name] = newFailures]
              IN IF ShouldAlert(newFailures)
                 THEN [k |-> k, counts |-> counts2,
                       alerts |-> Append(sent, [cycle |-> c, name |-> r.name,
                                                count |-> newFailures,
                                                error |-> r.error]),
                       wait |-> TRUE]
                 ELSE UpdateFailureCounts(summary, k + 1, counts2, sent, c)

EscalateFrom(c, cy, k) ==
    LET e == UpdateFailureCounts(cy.summary, k, routerFailureCounts, alerts, c) IN
    /\ routerFailureCounts' = e.counts
    /\ alerts' = e.alerts
    /\ cyc' = [cy EXCEPT !.k = e.k,
                         !.pc = IF e.wait THEN "alertWait" ELSE "summaryMsg"]

Aggregate(c) ==
    /\ c = started /\ cyc.pc = "aggregate"
    /\ lastBackupMeta' = [cycle |-> c, routers |-> cyc.summary]
    /\ EscalateFrom(c, [cyc EXCEPT !.marks = <<>>, !.out = NoText], 1)
    /\ UNCHANGED <<registry, defaultChatId, started, openSessions, probe, runHistory,
                   streak>>

(* the alert's sendMessage has settled: the loop goes on *)
AlertSent(c) ==
    /\ c = started /\ cyc.pc = "alertWait"
    /\ \E ok \in BOOLEAN : EscalateFrom(c, Messaged(cyc, ok), cyc.k + 1)
    /\ UNCHANGED <<registry, defaultChatId, started, openSessions, probe,
                   lastBackupMeta, runHistory, streak>>

(* successCount = summary.filter((s) => s.success).length, and the rest *)
SummaryCounts(summary) ==
    LET successCount == Cardinality({j \in 1..Len(summary) : summary[j].success})
    IN [success |-> successCount, failed |-> Len(summary) - successCount]

SummaryMessage(c) ==
    /\ c = started /\ cyc.pc = "summaryMsg"
    /\ \E ok \in BOOLEAN :
          cyc' = [Messaged(cyc, ok) EXCEPT !.pc = "group",
                                           !.reported = SummaryCounts(cyc.summary)]
    /\ UNCHANGED <<registry, defaultChatId, started, openSessions, probe,
                   routerFailureCounts, lastBackupMeta, alerts, runHistory, streak>>

(* r.error of the failed entries of the summary, in order *)
FailedErrors(summary) ==
    LET Failure(r) == ~r.success
        failures == SelectSeq(summary, Failure)
    IN [j \in 1..Len(failures) |-> failures[j].error]

(* errorMsg = sanitizeError(r.error) of each failed entry *)
GroupErrors(summary) ==
    [j \in 1..Len(FailedErrors(summary)) |-> sanitizeError(FailedErrors(summary)[j])]

(* sendBackupNotificationToGroup: nothing without a group chat, else one   *)
(* more message inside a try                                               *)
GroupNotification(c) ==
    /\ c = started /\ cyc.pc = "group"
    /\ \E g \in {"unset", "ok", "failed"} :
          cyc' = IF g = "unset"
                 THEN [cyc EXCEPT !.pc = "done"]
                 ELSE [Messaged(cyc, g = "ok") EXCEPT
                          !.pc = "done",
                          !.out = ErrorText("group", FailedErrors(cyc.summary),
                                            GroupErrors(cyc.summary))]
    /\ UNCHANGED <<registry, defaultChatId, started, openSessions, probe,
                   routerFailureCounts, lastBackupMeta, alerts, runHistory, streak>>

(***************************************************************************)
(* testConnection: connectSsh, one command inside a try, conn.end() in the *)
(* finally.  Its session is kept under the number 0.  The function can be  *)
(* called again once it has returned.                                      *)
(***************************************************************************)
StartTestConnection ==
    /\ probe.pc \in {"idle", "done"}
    /\ probe' = [pc |-> "connect"]
    /\ UNCHANGED <<cycleVars, openSessions>>

TestConnect ==
    /\ probe.pc = "connect"
    /\ \/ /\ openSessions' = openSessions \cup {<<0, 0>>}
          /\ probe' = [pc |-> "exec"]
       \/ /\ probe' = [pc |-> "done"]
          /\ UNCHANGED openSessions
    /\ UNCHANGED cycleVars

(* the command has succeeded or failed: finally { conn.end() } *)
TestExec ==
    /\ probe.pc = "exec"
    /\ probe' = [pc |-> "done"]
    /\ openSessions' = EndSession(openSessions, 0)
    /\ UNCHANGED cycleVars

ProbeNext == StartTestConnection \/ TestConnect \/ TestExec

(* the steps of the sendBackup call c after its start *)
CycleStep(c) ==
    \/ EarlyReturn(c)
    \/ NotifyStart(c)
    \/ Connect(c)
    \/ RemoteStep(c)
    \/ RemoveRemoteBackup(c)
    \/ RemoveRemoteExport(c)
    \/ SendBackupDocument(c)
    \/ BackupDocumentMessage(c)
    \/ SendExportDocument(c)
    \/ ExportDocumentMessage(c)
    \/ CatchBackupError(c)
    \/ FailureMessage(c)
    \/ Aggregate(c)
    \/ AlertSent(c)
    \/ SummaryMessage(c)
    \/ GroupNotification(c)

CycleNext ==
    \E c \in 1..MaxCycles :
        \/ \E routerName \in RequestInputs : StartCycle(c, routerName)
        \/ CycleStep(c)

(***************************************************************************)
(* Properties of the cycle.                                                *)
(***************************************************************************)
InSession == {"cmdBackup", "cmdExport", "sftp", "getBackup", "getExport", "rmBackup",
              "rmExport"}

LoopDone == cyc.targets # <<>> /\ cyc.pc \in {"aggregate", "alertWait", "summaryMsg",
                                               "group", "done"}

(* the entries of the summary the escalation loop has gone through *)
Escalated ==
    CASE cyc.pc = "alertWait" -> 1..cyc.k
      [] cyc.pc \in {"summaryMsg", "group", "done"} -> 1..Len(cyc.summary)
      [] OTHER -> {}

Alerted(c, name) == \E n \in 1..Len(alerts) : alerts[n].cycle = c /\ alerts[n].name = name

(* C5 as stated: an alert naming the device is emitted in a cycle if and   *)
(* only if the device failed and its failure count after the increment is  *)
(* at least 3.                                                             *)
C5_AlertIffThreshold ==
    \A j \in Escalated :
        Alerted(started, cyc.summary[j].name)
            <=> (/\ ~cyc.summary[j].success
                 /\ routerFailureCounts[cyc.summary[j].name] >= failureThreshold)

(* C5 amended: an alert naming the device is emitted in a cycle if and     *)
(* only if the device failed, its failure count after the increment is at  *)
(* least 3 and a default chat is configured.                               *)
C5_AlertIffThresholdAndChat ==
    \A j \in Escalated :
        Alerted(started, cyc.summary[j].name)
            <=> (/\ ~cyc.summary[j].success
                 /\ routerFailureCounts[cyc.summary[j].name] >= failureThreshold
                 /\ defaultChatId)

C5_Witness ==
    /\ cyc.pc = "done"
    /\ \E n \in 1..Len(alerts) :
          /\ alerts[n].cycle = started
          /\ alerts[n].count = failureThreshold + 1

(* C6: a finished cycle with a non-empty target set has put its RunRecord  *)
(* at the head of the run history and lastBackupMeta holds its outcome     *)
(* list.                                                                   *)
C6_RunRecordPersisted ==
    (cyc.pc = "done" /\ cyc.targets # <<>>)
        => /\ lastBackupMeta.routers = cyc.summary
           /\ Len(runHistory) >= 1
           /\ runHistory[1].routers = cyc.summary

(* C7: once the loop is over the summary has one entry per target device,  *)
(* in order, whose success flag is that of the device's performBackup; a   *)
(* failed entry carries the sanitized error and no paths; the reported     *)
(* counts are the numbers of successful and failed entries.                *)
C7_OneOutcomePerDevice ==
    /\ LoopDone =>
          /\ Len(cyc.summary) = Len(cyc.targets)
          /\ Len(cyc.attempts) = Len(cyc.targets)
          /\ \A j \in 1..Len(cyc.targets) :
                /\ cyc.summary[j].name = Trim(cyc.targets[j])
                /\ cyc.summary[j].success = cyc.attempts[j].ok
                /\ ~cyc.attempts[j].ok =>
                      /\ cyc.summary[j].error = sanitizeError(cyc.attempts[j].err.msg)
                      /\ \A n \in 1..Len(cyc.summary[j].error) - 1 :
                            cyc.summary[j].error[n] = "P"
                                => SubSeq(cyc.summary[j].error, n, n + 4) = Placeholder
                      /\ cyc.summary[j].backupPath = <<>>
                      /\ cyc.summary[j].exportPath = <<>>
    /\ (cyc.targets # <<>> /\ cyc.pc \in {"group", "done"}) =>
          /\ cyc.reported.success =
                Cardinality({j \in 1..Len(cyc.attempts) : cyc.attempts[j].ok})
          /\ cyc.reported.failed =
                Cardinality({j \in 1..Len(cyc.attempts) : ~cyc.attempts[j].ok})

C7_Witness ==
    /\ cyc.pc = "done"
    /\ Len(cyc.summary) = 2
    /\ cyc.summary[1].success
    /\ ~cyc.summary[2].success
    /\ cyc.summary[2].error = <<"x", " ">> \o Placeholder
    /\ cyc.reported = [success |-> 1, failed |-> 1]

(* C8: a cycle has at most one remote session open; while a device is      *)
(* attempted, the outcomes of all devices before it are recorded and only  *)
(* its own session can be open; devices are taken in registry order.       *)
C8_SequentialDevices ==
    /\ Cardinality({x \in openSessions : x[1] = started}) <= 1
    /\ (cyc.pc \in InSession \cup {"connect"}) =>
          /\ Len(cyc.summary) = cyc.i - 1
          /\ \A x \in openSessions : x[1] = started => x[2] = cyc.i
    /\ \A j \in 1..Len(cyc.summary) : cyc.summary[j].name = Trim(cyc.targets[j])
    /\ cyc.targets # <<>> =>
          \E n \in 1..Len(registry) :
             /\ n + Len(cyc.targets) - 1 <= Len(registry)
             /\ cyc.targets = SubSeq(registry, n, n + Len(cyc.targets) - 1)

C8_Witness ==
    /\ <<started, 2>> \in openSessions
    /\ Len(cyc.summary) = 1
    /\ cyc.summary[1].success

FullOrder ==
    <<"connect", "cmdBackup", "cmdExport", "sftp", "getBackup", "getExport",
      "rmBackup", "rmExport", "end">>

IsPrefix(s, t) == Len(s) <= Len(t) /\ s = SubSeq(t, 1, Len(s))

C10_SessionClosed ==
    /\ cyc.pc \notin InSession => \A x \in openSessions : x[1] = 0
    /\ \A x \in openSessions : x[1] \in {0, started}
    /\ probe.pc # "exec" => \A x \in openSessions : x[1] # 0

C10_Witness ==
    /\ cyc.pc = "catch"
    /\ Len(cyc.steps) > 1
    /\ openSessions = {}
    /\ probe.pc = "done"

(***************************************************************************)
(* A cycle with an empty target set: the registry is empty or the          *)
(* requested name is not registered.                                       *)
(***************************************************************************)
EmptyTargets == cyc.pc # "idle" /\ cyc.targets = <<>>

(* C11: a cycle whose target set is empty ends with its next step, having  *)
(* made exactly one messaging call; it opens no session, and no step of it *)
(* changes lastBackupMeta, a failure count or the run history.             *)
C11_EmptyTargetCycle ==
    /\ [](EmptyTargets =>
            /\ cyc.pc \in {"early", "done", "rejected"}
            /\ cyc.msgs = (IF cyc.pc = "early" THEN 0 ELSE 1)
            /\ \A x \in openSessions : x[1] # started
            /\ lastBackupMeta.cycle # started)
    /\ [][EmptyTargets' =>
            UNCHANGED <<lastBackupMeta, routerFailureCounts, runHistory, streak>>]_cycleVars

C11_Witness ==
    /\ EmptyTargets
    /\ cyc.pc = "done"
    /\ registry # <<>>
    /\ lastBackupMeta.cycle = started - 1
    /\ routerFailureCounts[<<"a">>] = 1

(***************************************************************************)
(* The deliveries of a device whose performBackup succeeded.               *)
(***************************************************************************)
SendPcs == {"sendBackupDoc", "backupDocMsg", "sendExportDoc", "exportDocMsg"}

(* C12: a device whose performBackup succeeded is recorded as a success    *)
(* with both artifact paths whatever the two deliveries do; after the      *)
(* snapshot delivery, failed or not, the export delivery is next; and the  *)
(* escalation loop sets the failure count of the device to 0.              *)
C12_DeliveryFailureKeepsSuccess ==
    /\ \A j \in 1..Len(cyc.summary) :
          cyc.attempts[j].ok =>
             /\ cyc.summary[j].success
             /\ cyc.summary[j].backupPath = <<cyc.targets[j], "backup">>
             /\ cyc.summary[j].exportPath = <<cyc.targets[j], "export">>
    /\ (Len(cyc.attempts) > Len(cyc.summary) /\ cyc.attempts[Len(cyc.attempts)].ok)
          => cyc.pc \in SendPcs
    /\ cyc.sent.backup # "none" => cyc.pc \in SendPcs \ {"sendBackupDoc"}
    /\ \A j \in Escalated :
          cyc.summary[j].success => routerFailureCounts[cyc.summary[j].name] = 0

C12_Witness ==
    /\ cyc.pc = "aggregate"
    /\ Len(cyc.summary) = 1
    /\ cyc.summary[1].success
    /\ ~cyc.marks[1].delivered
    /\ routerFailureCounts[cyc.summary[1].name] = 2

(* what an entry of the summary says beyond the name of its device *)
Shape(o) ==
    [success |-> o.success, error |-> o.error,
     hasBackupPath |-> o.backupPath # <<>>, hasExportPath |-> o.exportPath # <<>>]

(* C13: the entry recorded for a device whose backup succeeded and whose   *)
(* files were both delivered differs, beyond the device's name, from the   *)
(* entry recorded for a device whose backup succeeded and of which a       *)
(* delivery failed.                                                        *)
C13_DeliveryFailureRecorded ==
    \A j, k \in 1..Len(cyc.marks) :
        (/\ cyc.summary[j].success
         /\ cyc.summary[k].success
         /\ cyc.marks[j].delivered
         /\ ~cyc.marks[k].delivered)
            => Shape(cyc.summary[j]) # Shape(cyc.summary[k])

(* C14: the entry recorded for a device whose commands succeeded and whose *)
(* download failed differs, beyond the device's name, from the entry       *)
(* recorded for a device that failed at the connection or at a command.    *)
C14_RetrievalFailureDistinct ==
    \A j, k \in 1..Len(cyc.marks) :
        (/\ cyc.marks[j].retrieval
         /\ ~cyc.summary[k].success
         /\ ~cyc.marks[k].retrieval)
            => Shape(cyc.summary[j]) # Shape(cyc.summary[k])

(* C15: with a non-empty target set no messaging failure ends sendBackup:  *)
(* the cycle is never rejected, it always has a next step until it is      *)
(* done, every target device has been attempted when the loop is over, and *)
(* the escalation loop has gone through the whole summary before the       *)
(* summary message.                                                        *)
C15_MessagingFailuresNotFatal ==
    [](/\ cyc.targets # <<>> => cyc.pc # "rejected"
       /\ Active => ENABLED CycleStep(started)
       /\ LoopDone => Len(cyc.attempts) = Len(cyc.targets)
       /\ (cyc.targets # <<>> /\ cyc.pc \in {"summaryMsg", "group", "done"})
             => /\ cyc.k = Len(cyc.summary) + 1
                /\ lastBackupMeta = [cycle |-> started, routers |-> cyc.summary])

C15_Witness ==
    /\ cyc.pc = "done"
    /\ cyc.allFailed
    /\ cyc.msgs = MaxCounted
    /\ Len(cyc.attempts) = 2
    /\ cyc.attempts[1].ok
    /\ ~cyc.attempts[2].ok
    /\ alerts # <<>>

(* C16: the failure count of a device is the number of failed outcomes     *)
(* recorded for it since its last successful outcome, except for a device  *)
(* of the current summary the escalation loop has not come to yet.         *)
C16_CounterIsStreak ==
    \A n \in DeviceNames :
        (\A j \in 1..Len(cyc.summary) : cyc.summary[j].name = n => j \in Escalated)
            => routerFailureCounts[n] = streak[n]

C16_Witness ==
    /\ cyc.pc = "done"
    /\ cyc.targets = <<<<"a">>>>
    /\ cyc.summary[1].success
    /\ routerFailureCounts = [n \in DeviceNames |-> IF n = <<"a">> THEN 0 ELSE 2]
    /\ started = 3

(* the devices of the loop whose performBackup has failed so far *)
FailedAttempts ==
    {j \in 1..Len(cyc.summary) : ~cyc.attempts[j].ok}

(* C24: the error text of every message of a cycle (per-device failure,    *)
(* delivery failure, alert, group notification) and of every outcome entry *)
(* is the result of sanitizeError on the error it reports.                 *)
C24_ErrorTextsSanitized ==
    /\ cyc.out.kind \in {"failure", "delivery"}
          => cyc.out.text = sanitizeError(cyc.out.raw)
    /\ cyc.out.kind = "group"
          => /\ Len(cyc.out.text) = Cardinality(FailedAttempts)
             /\ \A j \in 1..Len(cyc.out.text) :
                    \E n \in FailedAttempts :
                        cyc.out.text[j] =
                            sanitizeError(sanitizeError(cyc.attempts[n].err.msg))
    /\ \A j \in FailedAttempts :
          cyc.summary[j].error = sanitizeError(cyc.attempts[j].err.msg)
    /\ \A n \in 1..Len(alerts) :
          \E j \in FailedAttempts :
              /\ cyc.summary[j].name = alerts[n].name
              /\ alerts[n].error = sanitizeError(cyc.attempts[j].err.msg)

C24_Witness ==
    /\ cyc.pc = "done"
    /\ cyc.out.kind = "group"
    /\ alerts # <<>>
    /\ \E j \in FailedAttempts :
          /\ cyc.attempts[j].err.msg # cyc.summary[j].error
          /\ alerts[1].error = cyc.summary[j].error
          /\ cyc.out.text[1] = sanitizeError(cyc.summary[j].error)

(* C29: a failure that is not a network error is followed by the attempt   *)
(* to send the per-device failure message, a network error by none; in     *)
(* both cases the device is recorded as failed, counted as failed in the    *)
(* summary and counted in its failure count.                               *)
C29_NetworkErrorSuppressesMessage ==
    /\ cyc.pc = "failMsg" => ~cyc.err.net /\ Len(cyc.summary) \in FailedAttempts
    /\ (cyc.pc \in {"connect", "aggregate"} /\ Len(cyc.summary) \in FailedAttempts)
          => (cyc.out.kind = "failure" <=> ~cyc.attempts[Len(cyc.summary)].err.net)
    /\ \A j \in 1..Len(cyc.summary) :
          cyc.attempts[j].ok <=> cyc.summary[j].success
    /\ cyc.pc \in {"group", "done"} /\ cyc.targets # <<>>
          => cyc.reported.failed = Cardinality(FailedAttempts)
    /\ cyc.pc \in {"summaryMsg", "group", "done"}
          => \A j \in FailedAttempts :
                routerFailureCounts[cyc.summary[j].name] >= 1

C29_Witness ==
    /\ cyc.pc = "done"
    /\ cyc.msgs = 2
    /\ FailedAttempts = {1}
    /\ cyc.attempts[1].err.net
    /\ cyc.reported.failed = 1
    /\ routerFailureCounts[cyc.summary[1].name] = failureThreshold

(***************************************************************************)
(* The run history (backupHistory.json): getHistory, saveHistory,          *)
(* addBackupRecord and getStatistics of the history module.  A run record  *)
(* is [timestamp, routers]; a timestamp of 0 stands for a missing one.     *)
(***************************************************************************)
MaxHistory == 5
MaxHistoryCalls == 2
HistoryCap == 1000

Outcome(name, success) == [name |-> name, success |-> success]

RunRecord(timestamp, routers) == [timestamp |-> timestamp, routers |-> routers]

(* the outcome lists of the records found on disk *)
RoutersInputs ==
    {<<Outcome(<<"a">>, TRUE)>>, <<Outcome(<<"a">>, FALSE)>>, <<Outcome(<<"b">>, TRUE)>>}

RECURSIVE HistoriesOfLen(_)
HistoriesOfLen(n) ==
    IF n = 0
    THEN {<<>>}
    ELSE {<<RunRecord(1, r)>> \o h : r \in RoutersInputs, h \in HistoriesOfLen(n - 1)}

HistoryInputs == UNION {HistoriesOfLen(n) : n \in 0..MaxHistory}

(* the records handed to addBackupRecord *)
RecordInputs ==
    {RunRecord(0, <<Outcome(<<"a">>, TRUE)>>),
     RunRecord(2, <<Outcome(<<"a">>, FALSE)>>),
     RunRecord(3, <<Outcome(<<"a">>, TRUE), Outcome(<<"b">>, FALSE)>>)}

(* the names handed to getStatistics; the empty name asks for the overall  *)
(* statistics                                                              *)
StatsNameInputs == {<<"a">>, <<" ", "a">>, <<"b">>, <<>>}

VARIABLES history, historyTmp, hprocs, historyQueue, hcalls, historyInit

historyVars == <<history, historyTmp, hprocs, historyQueue, hcalls, historyInit>>

(* routerRecords: of each record the first outcome whose trimmed name is   *)
(* the trimmed routerName, the records without one left out                *)
FindOutcome(routers, searchName) ==
    LET hits == {i \in 1..Len(routers) : Trim(routers[i].name) = searchName} IN
    IF hits = {}
    THEN <<>>
    ELSE <<routers[CHOOSE i \in hits : \A j \in hits : i <= j]>>

RECURSIVE RouterRecords(_, _)
RouterRecords(h, searchName) ==
    IF h = <<>>
    THEN <<>>
    ELSE FindOutcome(h[1].routers, searchName) \o RouterRecords(Tail(h), searchName)

(* a variant that counts every failure *)
ConsecutiveFailuresAll(routerRecords) ==
    Cardinality({i \in 1..Len(routerRecords) : ~routerRecords[i].success})

(* for (const record of routerRecords): count up to the first success *)
RECURSIVE ConsecutiveFailures(_)
ConsecutiveFailures(routerRecords) ==
    IF routerRecords = <<>> \/ routerRecords[1].success
    THEN 0
    ELSE 1 + ConsecutiveFailures(Tail(routerRecords))

(* the timestamp of the first record in which the routerName, untrimmed,   *)
(* succeeded; 0 when there is none                                         *)
LastSuccessfulBackup(h, routerName) ==
    LET hits == {i \in 1..Len(h) :
                    \E j \in 1..Len(h[i].routers) :
                       /\ h[i].routers[j].name = routerName
                       /\ \A m \in 1..(j - 1) : h[i].routers[m].name # routerName
                       /\ h[i].routers[j].success}
    IN IF hits = {} THEN 0 ELSE h[CHOOSE i \in hits : \A j \in hits : i <= j].timestamp

RECURSIVE FlatRouters(_)
FlatRouters(h) == IF h = <<>> THEN <<>> ELSE h[1].routers \o FlatRouters(Tail(h))

SuccessCount(results) == Cardinality({i \in 1..Len(results) : results[i].success})

getStatistics(h, routerName) ==
    IF routerName # <<>>
    THEN LET routerRecords == RouterRecords(h, Trim(routerName)) IN
         IF routerRecords = <<>>
         THEN [kind |-> "router", total |-> 0, success |-> 0, failed |-> 0,
               lastBackup |-> 0, consecutiveFailures |-> 0]
         ELSE [kind |-> "router", total |-> Len(routerRecords),
               success |-> SuccessCount(routerRecords),
               failed |-> Len(routerRecords) - SuccessCount(routerRecords),
               lastBackup |-> LastSuccessfulBackup(h, routerName),
               consecutiveFailures |-> ConsecutiveFailures(routerRecords)]
    ELSE [kind |-> "overall", total |-> Len(FlatRouters(h)),
          success |-> SuccessCount(FlatRouters(h)),
          failed |-> Len(FlatRouters(h)) - SuccessCount(FlatRouters(h)),
          lastBackup |-> 0, consecutiveFailures |-> 0]

NoStats ==
    [kind |-> "none", total |-> 0, success |-> 0, failed |-> 0, lastBackup |-> 0,
     consecutiveFailures |-> 0]

(* history.unshift(record); history.splice(1000) *)
Unshift(h, record) ==
    LET l == <<record>> \o h IN
    IF Len(l) > HistoryCap THEN SubSeq(l, 1, HistoryCap) ELSE l

ValidRecord(record) == record.timestamp # 0

NewHistoryProc(kind, arg, name, st, pc, saving) ==
    [kind |-> kind, arg |-> arg, name |-> name, st |-> st, pc |-> pc,
     local |-> <<>>, saving |-> saving, after |-> "none", phase |-> "first",
     child |-> 0, res |-> "none", stats |-> NoStats, torn |-> FALSE]

NoRecord == RunRecord(0, <<>>)

(***************************************************************************)
(* The continuation of a caller once getHistory has returned the list l:   *)
(* getStatistics computes and returns; addBackupRecord puts its record in  *)
(* front and calls saveHistory, and after its second, verifying read it    *)
(* resolves.                                                               *)
(***************************************************************************)
AfterGetHistory(p, l) ==
    IF p.kind = "stats"
    THEN [p EXCEPT !.local = l, !.stats = getStatistics(l, p.name), !.res = "ok",
                   !.st = "fulfilled", !.pc = "done"]
    ELSE IF p.phase = "first"
         THEN [p EXCEPT !.local = l, !.saving = Unshift(l, p.arg),
                        !.after = "resolve", !.pc = "s_exists"]
         ELSE [p EXCEPT !.res = "ok", !.st = "fulfilled", !.pc = "done"]

HistoryInit ==
    /\ history \in {Missing, NotArray, ListDoc(<<>>)}
                      \cup {ListDoc(h) : h \in HistoriesOfLen(1)}
    /\ historyInit = history
    /\ historyTmp = Missing
    /\ hprocs = <<>>
    /\ historyQueue = <<>>
    /\ hcalls = <<>>

(* addBackupRecord: the validation, then a task chained onto writeQueue *)
CallAddBackupRecord(record) ==
    /\ Len(hcalls) < MaxHistoryCalls
    /\ hcalls' = Append(hcalls, [op |-> "add", arg |-> record])
    /\ IF ValidRecord(record)
       THEN /\ hprocs' = Append(hprocs,
                   NewHistoryProc("add", record, <<>>, "pending", "g_exists", <<>>))
            /\ historyQueue' = Append(historyQueue, Len(hprocs) + 1)
       ELSE /\ hprocs' = Append(hprocs,
                   [NewHistoryProc("add", record, <<>>, "fulfilled", "done", <<>>)
                       EXCEPT !.res = "invalid"])
            /\ UNCHANGED historyQueue
    /\ UNCHANGED <<history, historyTmp, historyInit>>

(* getStatistics runs outside the queue *)
CallGetStatistics(routerName) ==
    /\ Len(hcalls) < MaxHistoryCalls
    /\ hcalls' = Append(hcalls, [op |-> "stats", arg |-> NoRecord])
    /\ hprocs' = Append(hprocs,
          NewHistoryProc("stats", NoRecord, routerName, "running", "g_exists", <<>>))
    /\ UNCHANGED <<history, historyTmp, historyQueue, historyInit>>

(* the task at position i starts once the promise it was chained onto has  *)
(* settled                                                                 *)
HistoryQueueStart(i) ==
    /\ i \in 1..Len(historyQueue)
    /\ hprocs[historyQueue[i]].st = "pending"
    /\ IF i = 1 THEN TRUE ELSE Settled(hprocs[historyQueue[i - 1]].st)
    /\ hprocs' = [hprocs EXCEPT ![historyQueue[i]].st = "running"]
    /\ UNCHANGED <<history, historyTmp, historyQueue, hcalls, historyInit>>

HistoryRunning(p, pcs) ==
    /\ p \in 1..Len(hprocs)
    /\ hprocs[p].st = "running"
    /\ hprocs[p].pc \in pcs

(* a task of the queue finds the document absent or cut short *)
TornFor(p) == p.torn \/ (p.kind = "add" /\ history.kind \in {"missing", "partial"})

(* ensureStore, called by getHistory ("g_") and by saveHistory ("s_") *)
HistoryEnsureStoreExists(p) ==
    /\ HistoryRunning(p, {"g_exists", "s_exists"})
    /\ LET g == hprocs[p].pc = "g_exists" IN
       hprocs' = [hprocs EXCEPT ![p].pc =
                     IF history.kind = "missing"
                     THEN (IF g THEN "g_create" ELSE "s_create")
                     ELSE (IF g THEN "g_read" ELSE "s_enqueue")]
    /\ UNCHANGED <<history, historyTmp, historyQueue, hcalls, historyInit>>

(* writeJSON(historyPath, []): the file is opened truncated ... *)
HistoryEnsureStoreOpen(p) ==
    /\ HistoryRunning(p, {"g_create", "s_create"})
    /\ history' = Partial
    /\ hprocs' = [hprocs EXCEPT ![p].pc =
                     IF hprocs[p].pc = "g_create" THEN "g_create2" ELSE "s_create2"]
    /\ UNCHANGED <<historyTmp, historyQueue, hcalls, historyInit>>

(* ... and then written *)
HistoryEnsureStoreWrite(p) ==
    /\ HistoryRunning(p, {"g_create2", "s_create2"})
    /\ history' = ListDoc(<<>>)
    /\ hprocs' = [hprocs EXCEPT ![p].pc =
                     IF hprocs[p].pc = "g_create2" THEN "g_read" ELSE "s_enqueue"]
    /\ UNCHANGED <<historyTmp, historyQueue, hcalls, historyInit>>

(* getHistory: readJSON; anything but a list is reset through              *)
(* saveHistory([])                                                         *)
GetHistoryRead(p) ==
    /\ HistoryRunning(p, {"g_read"})
    /\ hprocs' = [hprocs EXCEPT ![p] =
                     IF history.kind = "list"
                     THEN AfterGetHistory(hprocs[p], history.list)
                     ELSE [hprocs[p] EXCEPT !.saving = <<>>, !.after = "reset",
                                            !.pc = "s_exists",
                                            !.torn = TornFor(hprocs[p])]]
    /\ UNCHANGED <<history, historyTmp, historyQueue, hcalls, historyInit>>

(* saveHistory: writeQueue = writeQueue.then(write).catch(...) *)
SaveHistoryEnqueue(p) ==
    /\ HistoryRunning(p, {"s_enqueue"})
    /\ LET w == Len(hprocs) + 1 IN
       /\ hprocs' = Append([hprocs EXCEPT ![p].pc = "s_await", ![p].child = w],
                           NewHistoryProc("write", NoRecord, <<>>, "pending", "w_tmp",
                                          hprocs[p].saving))
       /\ historyQueue' = Append(historyQueue, w)
    /\ UNCHANGED <<history, historyTmp, hcalls, historyInit>>

(* await writeQueue *)
SaveHistoryAwait(p) ==
    /\ HistoryRunning(p, {"s_await"})
    /\ Settled(hprocs[hprocs[p].child].st)
    /\ hprocs' = [hprocs EXCEPT ![p] =
                     IF hprocs[p].after = "reset"
                     THEN AfterGetHistory(hprocs[p], <<>>)
                     ELSE [hprocs[p] EXCEPT !.phase = "verify", !.pc = "g_exists"]]
    /\ UNCHANGED <<history, historyTmp, historyQueue, hcalls, historyInit>>

(* the queued write: the temp file, the removal of the target, the rename *)
HistoryWriteTemp(p) ==
    /\ HistoryRunning(p, {"w_tmp"})
    /\ historyTmp' = ListDoc(hprocs[p].saving)
    /\ hprocs' = [hprocs EXCEPT ![p].pc = "w_exists"]
    /\ UNCHANGED <<history, historyQueue, hcalls, historyInit>>

HistoryWriteExists(p) ==
    /\ HistoryRunning(p, {"w_exists"})
    /\ hprocs' = [hprocs EXCEPT ![p].pc =
                     IF history.kind # "missing" THEN "w_remove" ELSE "w_rename"]
    /\ UNCHANGED <<history, historyTmp, historyQueue, hcalls, historyInit>>

HistoryWriteRemove(p) ==
    /\ HistoryRunning(p, {"w_remove"})
    /\ history' = Missing
    /\ hprocs' = [hprocs EXCEPT ![p].pc = "w_rename"]
    /\ UNCHANGED <<historyTmp, historyQueue, hcalls, historyInit>>

HistoryWriteRename(p) ==
    /\ HistoryRunning(p, {"w_rename"})
    /\ history' = historyTmp
    /\ historyTmp' = Missing
    /\ hprocs' = [hprocs EXCEPT ![p].st = "fulfilled", ![p].pc = "done"]
    /\ UNCHANGED <<historyQueue, hcalls, historyInit>>

HistoryStep ==
    \/ \E i \in 1..Len(historyQueue) : HistoryQueueStart(i)
    \/ \E p \in 1..Len(hprocs) :
          \/ HistoryEnsureStoreExists(p)
          \/ HistoryEnsureStoreOpen(p)
          \/ HistoryEnsureStoreWrite(p)
          \/ GetHistoryRead(p)
          \/ SaveHistoryEnqueue(p)
          \/ SaveHistoryAwait(p)
          \/ HistoryWriteTemp(p)
          \/ HistoryWriteExists(p)
          \/ HistoryWriteRemove(p)
          \/ HistoryWriteRename(p)

HistoryNext ==
    \/ \E record \in RecordInputs : CallAddBackupRecord(record)
    \/ \E routerName \in StatsNameInputs : CallGetStatistics(routerName)
    \/ HistoryStep

(***************************************************************************)
(* getStatistics on its own: the history found on disk is any list of up   *)
(* to MaxHistory records, and nothing writes it.                           *)
(***************************************************************************)
StatsInit ==
    /\ history \in {ListDoc(h) : h \in HistoryInputs}
    /\ historyInit = history
    /\ historyTmp = Missing
    /\ hprocs = <<>>
    /\ historyQueue = <<>>
    /\ hcalls = <<>>

StatsNext ==
    \/ \E routerName \in StatsNameInputs : CallGetStatistics(routerName)
    \/ \E p \in 1..Len(hprocs) :
          \/ HistoryEnsureStoreExists(p)
          \/ GetHistoryRead(p)

(***************************************************************************)
(* Properties of the run history.                                          *)
(***************************************************************************)
HistoryQuiescent == ~ENABLED HistoryStep

AddCalls == {i \in 1..Len(hcalls) : hcalls[i].op = "add" /\ ValidRecord(hcalls[i].arg)}

(* the valid records handed to addBackupRecord, the latest call first *)
RECURSIVE NewestFirst(_)
NewestFirst(n) ==
    IF n = 0
    THEN <<>>
    ELSE (IF n \in AddCalls THEN <<hcalls[n].arg>> ELSE <<>>) \o NewestFirst(n - 1)

HistoryBase == IF historyInit.kind = "list" THEN historyInit.list ELSE <<>>

Occurrences(l, record) == Cardinality({i \in 1..Len(l) : l[i] = record})

(* C17: once nothing of the history store can run any more, the stored     *)
(* history holds the records of the addBackupRecord calls, the latest call *)
(* first, followed by the records it held before in their order, and no    *)
(* more than 1000 records.                                                 *)
C17_NewestFirstCapped ==
    /\ history.kind = "list" => Len(history.list) <= HistoryCap
    /\ (HistoryQuiescent /\ AddCalls # {} /\ historyInit.kind = "list")
          => /\ history.kind = "list"
             /\ history.list = NewestFirst(Len(hcalls)) \o HistoryBase

(* C18: once nothing of the history store can run any more, every record   *)
(* handed to addBackupRecord is in the stored history as often as it was   *)
(* handed in, and no task of the write queue has read a missing or         *)
(* truncated document.                                                     *)
C18_ConcurrentAddsSerialized ==
    /\ \A p \in 1..Len(hprocs) : ~hprocs[p].torn
    /\ (HistoryQuiescent /\ AddCalls # {})
          => /\ history.kind = "list"
             /\ \A i \in AddCalls :
                   Occurrences(history.list, hcalls[i].arg)
                       = Cardinality({j \in AddCalls : hcalls[j].arg = hcalls[i].arg})
                           + Occurrences(HistoryBase, hcalls[i].arg)

(* the addBackupRecord calls that entered the write queue *)
QueuedAdds == {p \in 1..Len(hprocs) : hprocs[p].kind = "add"}

ResolvedAdds == {p \in QueuedAdds : hprocs[p].res = "ok"}

(* C32: every addBackupRecord call with a valid record settles when every  *)
(* filesystem call returns (as long as one has not settled, some step of   *)
(* the history store can run), and the record of a resolved call is in the *)
(* stored history, at its head unless another call has resolved too.       *)
C32_AppendSettles ==
    /\ (\E p \in QueuedAdds : ~Settled(hprocs[p].st)) => ENABLED HistoryStep
    /\ \A p \in ResolvedAdds :
          /\ history.kind = "list"
          /\ \E i \in 1..Len(history.list) :
                /\ history.list[i] = hprocs[p].arg
                /\ i = 1 \/ ResolvedAdds # {p}

(* the device has an outcome in the record, and its first one is this *)
Appears(record, name) == FindOutcome(record.routers, Trim(name)) # <<>>

Failed(record, name) ==
    Appears(record, name) /\ ~FindOutcome(record.routers, Trim(name))[1].success

(* the records, walking from the most recent, in which the device failed   *)
(* and before which it has not succeeded                                   *)
FailuresBeforeSuccess(h, name) ==
    {i \in 1..Len(h) :
        /\ Failed(h[i], name)
        /\ \A j \in 1..(i - 1) : Appears(h[j], name) => Failed(h[j], name)}

(* the history, newest first, of a device with the given outcomes, oldest  *)
(* first                                                                   *)
RECURSIVE HistoryOf(_)
HistoryOf(outcomes) ==
    IF outcomes = <<>>
    THEN <<>>
    ELSE Append(HistoryOf(Tail(outcomes)), RunRecord(1, <<Outcome(<<"a">>, outcomes[1])>>))

(* C19: consecutiveFailures of getStatistics(name) is the number of        *)
(* records, walking from the most recent and skipping those without the    *)
(* device, in which the device failed before its first success: 1 after    *)
(* fail, fail, fail, success, fail and 3 after fail, fail, fail.           *)
C19_ConsecutiveFailures ==
    \A p \in 1..Len(hprocs) :
        (hprocs[p].pc = "done" /\ hprocs[p].stats.kind = "router") =>
            /\ hprocs[p].stats.consecutiveFailures
                  = Cardinality(FailuresBeforeSuccess(hprocs[p].local, hprocs[p].name))
            /\ (/\ hprocs[p].local = HistoryOf(<<FALSE, FALSE, FALSE, TRUE, FALSE>>)
                /\ Trim(hprocs[p].name) = <<"a">>)
                  => hprocs[p].stats.consecutiveFailures = 1
            /\ (/\ hprocs[p].local = HistoryOf(<<FALSE, FALSE, FALSE>>)
                /\ Trim(hprocs[p].name) = <<"a">>)
                  => hprocs[p].stats.consecutiveFailures = 3

C19_Witness ==
    \E p, q \in 1..Len(hprocs) :
        /\ hprocs[p].local =
              <<RunRecord(1, <<Outcome(<<"b">>, TRUE)>>)>>
                 \o HistoryOf(<<FALSE, TRUE, FALSE>>)
                 \o <<RunRecord(1, <<Outcome(<<"b">>, TRUE)>>)>>
        /\ hprocs[p].name = <<" ", "a">>
        /\ hprocs[p].stats.consecutiveFailures = 1
        /\ hprocs[p].stats.total = 3
        /\ hprocs[q].local = hprocs[p].local
        /\ hprocs[q].name = <<"b">>
        /\ hprocs[q].stats.consecutiveFailures = 0

(***************************************************************************)
(* performBackup of mikrotikService.js on its own, one call from its       *)
(* validation to its return.  A device name is a sequence of characters:   *)
(* "a" and the letters of the word router stand for letters, "0" for a     *)
(* digit, " " and "/" for characters outside the class of safeName.        *)
(***************************************************************************)
MaxNameLen == 3

RouterWord == <<"r", "o", "u", "t", "e", "r">>

SafeClass == {"a", "A", "r", "o", "u", "t", "e", "0", "-", "_"}

BackupNameChars == {"a", "0", "-", "_", " ", "/"}

StringsOfLen(chars, n) == [1..n -> chars]

BackupNameInputs == UNION {StringsOfLen(BackupNameChars, n) : n \in 0..MaxNameLen}

(* router.name, router.host, and whether username and password are set *)
BackupRouterInputs ==
    {[name |-> n, host |-> h, credentials |-> c] :
        n \in BackupNameInputs, h \in {<<>>, <<"a", "/", "0">>}, c \in BOOLEAN}

(* a variant that leaves a character outside the class in place *)
safeNameKeepsSlash(name) ==
    LET replaced == [i \in 1..Len(name) |->
                        IF name[i] \in SafeClass \cup {"/"} THEN name[i] ELSE "_"]
    IN IF replaced = <<>> THEN RouterWord ELSE replaced

(* name.replace(/[^a-zA-Z0-9-_]/g, '_') || 'router' *)
safeName(name) ==
    LET replaced == [i \in 1..Len(name) |->
                        IF name[i] \in SafeClass THEN name[i] ELSE "_"]
    IN IF replaced = <<>> THEN RouterWord ELSE replaced

VARIABLES job

backupVars == <<job>>

NoResult == [kind |-> "none", err |-> "none", backupPath |-> <<>>, exportPath |-> <<>>]

Rejected(err) == [NoResult EXCEPT !.kind = "rejected", !.err = err]

(* the local paths: <backup directory>/<routerName>/backup|export/<file> *)
LocalBackup(routerName) == <<routerName, "backup">>

LocalExport(routerName) == <<routerName, "export">>

Returned(routerName) ==
    [kind |-> "returned", err |-> "none", backupPath |-> LocalBackup(routerName),
     exportPath |-> LocalExport(routerName)]

IdleJob ==
    [pc |-> "idle", router |-> [name |-> <<>>, host |-> <<>>, credentials |-> FALSE],
     routerName |-> <<>>, log |-> <<>>, conn |-> "none", result |-> NoResult]

BackupInit ==
    \E router \in BackupRouterInputs : job = [IdleJob EXCEPT !.pc = "validate",
                                                             !.router = router]

(* lines 77-100: the checks of the router, then the names and directories *)
PerformBackupValidate ==
    /\ job.pc = "validate"
    /\ job' = IF job.router.host = <<>> \/ ~job.router.credentials
              THEN [job EXCEPT !.pc = "done", !.result = Rejected("invalid")]
              ELSE [job EXCEPT !.pc = "connect",
                               !.routerName =
                                   safeName(IF job.router.name # <<>>
                                            THEN job.router.name
                                            ELSE job.router.host)]

Logged(j, ok) == [j EXCEPT !.log = Append(@, [step |-> j.pc, ok |-> ok])]

(* await connectSsh(router), before the try *)
ConnectSsh ==
    /\ job.pc = "connect"
    /\ \E ok \in BOOLEAN :
          job' = IF ok
                 THEN [Logged(job, ok) EXCEPT !.pc = "cmdBackup", !.conn = "open"]
                 ELSE [Logged(job, ok) EXCEPT !.pc = "done",
                                              !.result = Rejected("connect")]

(* an awaited step inside the try has settled: the next step, or the       *)
(* finally and the rejection with the step's error                         *)
Settle(j, ok, next) ==
    IF ok
    THEN [Logged(j, ok) EXCEPT !.pc = next]
    ELSE [Logged(j, ok) EXCEPT !.pc = "done", !.conn = "ended",
                               !.result = Rejected(j.pc)]

(* a variant that goes on after a failed command *)
ExecCommandUnchecked ==
    /\ job.pc \in {"cmdBackup", "cmdExport"}
    /\ \E ok \in BOOLEAN :
          job' = [Logged(job, ok) EXCEPT
                     !.pc = IF job.pc = "cmdBackup" THEN "cmdExport" ELSE "sftp"]

(* lines 104-105: /system backup save, then /export *)
ExecCommand ==
    /\ job.pc \in {"cmdBackup", "cmdExport"}
    /\ \E ok \in BOOLEAN :
          job' = Settle(job, ok, IF job.pc = "cmdBackup" THEN "cmdExport" ELSE "sftp")

(* line 107 *)
GetSftp ==
    /\ job.pc = "sftp"
    /\ \E ok \in BOOLEAN : job' = Settle(job, ok, "getBackup")

(* lines 108-109 *)
DownloadFile ==
    /\ job.pc \in {"getBackup", "getExport"}
    /\ \E ok \in BOOLEAN :
          job' = Settle(job, ok, IF job.pc = "getBackup" THEN "getExport" ELSE "rmBackup")

(* a variant without the try/catch around a removal *)
FileRemoveFatal ==
    /\ job.pc \in {"rmBackup", "rmExport"}
    /\ \E ok \in BOOLEAN :
          job' = IF ok /\ job.pc = "rmExport"
                 THEN [Logged(job, ok) EXCEPT !.pc = "done", !.conn = "ended",
                                              !.result = Returned(job.routerName)]
                 ELSE Settle(job, ok, "rmExport")

(* lines 113-132: the two /file remove commands, each in its own try/catch *)
(* that only logs; after the second the return and the finally             *)
FileRemove ==
    /\ job.pc \in {"rmBackup", "rmExport"}
    /\ \E ok \in BOOLEAN :
          job' = IF job.pc = "rmBackup"
                 THEN [Logged(job, ok) EXCEPT !.pc = "rmExport"]
                 ELSE [Logged(job, ok) EXCEPT !.pc = "done", !.conn = "ended",
                                              !.result = Returned(job.routerName)]

BackupNext ==
    \/ PerformBackupValidate
    \/ ConnectSsh
    \/ ExecCommand
    \/ GetSftp
    \/ DownloadFile
    \/ FileRemove

(***************************************************************************)
(* Properties of performBackup.                                            *)
(***************************************************************************)
Tried(step) == \E n \in 1..Len(job.log) : job.log[n].step = step

FailedAt(step) ==
    \E n \in 1..Len(job.log) : job.log[n].step = step /\ ~job.log[n].ok

Succeeded(step) ==
    \E n \in 1..Len(job.log) : job.log[n].step = step /\ job.log[n].ok

(* C22: when the snapshot command fails performBackup rejects with that    *)
(* command's error and neither the export command nor a transfer is        *)
(* issued; when the export command fails it rejects with that command's    *)
(* error and no transfer channel is opened; no local path is returned.     *)
C22_BothCommandsMustSucceed ==
    /\ FailedAt("cmdBackup")
          => /\ job.result = Rejected("cmdBackup")
             /\ \A s \in {"cmdExport", "sftp", "getBackup", "getExport"} : ~Tried(s)
             /\ job.pc = "done"
    /\ FailedAt("cmdExport")
          => /\ job.result = Rejected("cmdExport")
             /\ \A s \in {"sftp", "getBackup", "getExport"} : ~Tried(s)
             /\ job.pc = "done"
    /\ job.pc \in {"sftp", "getBackup", "getExport", "rmBackup", "rmExport"}
          => Succeeded("cmdBackup") /\ Succeeded("cmdExport")

C22_Witness ==
    /\ Succeeded("cmdBackup")
    /\ FailedAt("cmdExport")
    /\ job.result.kind = "rejected"
    /\ job.result.backupPath = <<>>

C38_ArtifactsRemovedBeforeClose ==
    job.conn = "ended"
       => /\ Succeeded("cmdBackup") => Tried("rmBackup")
          /\ Succeeded("cmdExport") => Tried("rmExport")

InSafeClass(s) == \A i \in 1..Len(s) : s[i] \in SafeClass

(* C28: safeName applied twice gives what it gives applied once, and its   *)
(* result holds only letters, digits, "_" and "-".                         *)
C28_SafeNameIdempotent ==
    /\ \A x \in {job.router.name, job.router.host, job.routerName} :
          /\ safeName(safeName(x)) = safeName(x)
          /\ InSafeClass(safeName(x))
    /\ job.routerName # <<>>
          => InSafeClass(job.routerName) /\ safeName(job.routerName) = job.routerName

C28_Witness ==
    /\ job.pc = "connect"
    /\ job.router.name = <<"a", "/", " ">>
    /\ job.routerName = <<"a", "_", "_">>

(***************************************************************************)
(* The artifact directories of the registered devices: addRouter accepts   *)
(* names that differ after trimming and lower-casing, performBackup files  *)
(* the artifacts of a device under the safe name of its registered name.   *)
(***************************************************************************)
MaxRegistered == 2

RegistryNameChars == {"a", "A", "_", " ", "/"}

RegistryNameInputs ==
    UNION {StringsOfLen(RegistryNameChars, n) : n \in 0..MaxNameLen}

VARIABLES dirs

dirsVars == <<dirs>>

(* routers: the registered names; routerDir: of each device the directory  *)
(* its last backup went to, <<>> before its first backup                   *)
IdleDirs == [routers |-> <<>>, routerDir |-> <<>>]

DirsInit == dirs = IdleDirs

(* addRouter of a name that passes the validation and the duplicate check; *)
(* the trimmed name is stored                                              *)
RegisterRouter(name) ==
    /\ Len(dirs.routers) < MaxRegistered
    /\ ValidAddName(name)
    /\ ~HasDuplicate(dirs.routers, Trim(name))
    /\ dirs' = [routers |-> Append(dirs.routers, Trim(name)),
                routerDir |-> Append(dirs.routerDir, <<>>)]

(* performBackup of the i-th registered device: routerName and routerDir *)
BackupRouter(i) ==
    /\ i \in 1..Len(dirs.routers)
    /\ dirs.routerDir[i] = <<>>
    /\ dirs' = [dirs EXCEPT !.routerDir[i] = safeName(dirs.routers[i])]

DirsNext ==
    \/ \E name \in RegistryNameInputs : RegisterRouter(name)
    \/ \E i \in 1..MaxRegistered : BackupRouter(i)

(* C39: two registered devices never have the same artifact directory.     *)
C39_DistinctArtifactDirs ==
    \A i, j \in 1..Len(dirs.routers) :
        (i # j /\ dirs.routerDir[i] # <<>>) => dirs.routerDir[i] # dirs.routerDir[j]

(***************************************************************************)
(* sanitizeError on its own: an error text, and the results of applying    *)
(* the function to it once and then to its own result.                     *)
(***************************************************************************)
MaxErrLen == 5

ErrorTextInputs == UNION {StringsOfLen(ErrChars, n) : n \in 0..MaxErrLen}

VARIABLES san

sanitizeVars == <<san>>

IdleSanitize == [input |-> <<>>, results |-> <<>>, calls |-> 0]

SanitizeInit ==
    \E s \in ErrorTextInputs : san = [input |-> s, results |-> <<>>, calls |-> 1]

(* one more call, on the input or on the result of the call before *)
ApplySanitizeError ==
    /\ san.calls > 0
    /\ Len(san.results) < 2
    /\ san' = [san EXCEPT !.results =
                  Append(@, sanitizeError(IF @ = <<>> THEN san.input ELSE @[Len(@)]))]

SanitizeNext == ApplySanitizeError

(* every password marker is followed by the placeholder's stars *)
MarkersMasked(s) ==
    \A i \in 1..Len(s) :
        MatchesAt(s, i) => /\ i + Len(Placeholder) - 1 <= Len(s)
                           /\ SubSeq(s, i, i + Len(Placeholder) - 1) = Placeholder

(* C25: sanitizeError applied to its own result gives that result again,   *)
(* and in its result every password marker is followed by the placeholder  *)
(* and by nothing of the text that followed the marker in the input.       *)
C25_SanitizeIdempotent ==
    /\ Len(san.results) >= 1 => MarkersMasked(san.results[1])
    /\ Len(san.results) = 2 => san.results[2] = san.results[1]

(***************************************************************************)
(* The schedule: loadCustomSchedule and scheduleJob at startup, then the   *)
(* handlers that enable, disable and re-schedule the job.  An expression   *)
(* is known by where it comes from and whether cron.schedule accepts it.   *)
(***************************************************************************)
MaxScheduleCalls == 2

NoExpr == [from |-> "none", valid |-> FALSE]

Expr(from, valid) == [from |-> from, valid |-> valid]

NoJob == [installed |-> FALSE, schedule |-> NoExpr, timezone |-> "none"]

Job(schedule, timezone) ==
    [installed |-> TRUE, schedule |-> schedule, timezone |-> timezone]

(* config.backup.timezone: accepted, rejected by Intl.DateTimeFormat, or   *)
(* accepted by it and rejected by cron.schedule                            *)
TimezoneInputs == {"ok", "invalid", "cronRejects"}

(* customSchedule.json *)
ScheduleFileInputs == {"absent", "unreadable", "empty", "valid", "invalid"}

ScheduleConfigInputs ==
    [defaultChatId : BOOLEAN, timezone : TimezoneInputs, cronValid : BOOLEAN]

VARIABLES sch

scheduleVars == <<sch>>

IdleSchedule ==
    [pc |-> "idle",
     config |-> [defaultChatId |-> FALSE, timezone |-> "ok", cronValid |-> TRUE],
     file |-> "absent", customSchedule |-> NoExpr, scheduledJob |-> NoJob,
     results |-> <<>>, process |-> "running", errorLogged |-> FALSE, n |-> 0,
     running |-> <<>>, lastButton |-> "none", pending |-> NoExpr]

ScheduleInit ==
    \E config \in ScheduleConfigInputs, file \in ScheduleFileInputs :
        sch = [IdleSchedule EXCEPT !.pc = "load", !.config = config, !.file = file]

isValidTimezone(timezone) == timezone # "invalid"

(* cron.schedule(schedule, task, {timezone}) throws *)
CronScheduleThrows(schedule, timezone) ==
    ~schedule.valid \/ timezone = "cronRejects"

(* a variant in which stop() leaves the task running *)
StopJobLeavesTask(running, task) == running

(* scheduledJob.stop() when scheduledJob is set: the cron tasks that go on *)
(* running                                                                 *)
StopJob(running, task) ==
    IF ~task.installed
    THEN running
    ELSE LET at == {i \in 1..Len(running) : running[i] = task} IN
         IF at = {}
         THEN running
         ELSE LET first == CHOOSE i \in at : \A j \in at : i <= j IN
              SubSeq(running, 1, first - 1) \o SubSeq(running, first + 1, Len(running))

(* scheduleJob(cronSchedule), lines 559-609: the job it leaves installed,  *)
(* the cron tasks running after it, customSchedule, and whether it         *)
(* returned or rejected                                                    *)
scheduleJob(s, cronSchedule) ==
    IF ~s.config.defaultChatId
    THEN [job |-> s.scheduledJob, custom |-> s.customSchedule,
          outcome |-> "skipped", logged |-> FALSE, schedule |-> NoExpr,
          running |-> s.running]
    ELSE LET stopped == StopJob(s.running, s.scheduledJob)
             schedule == IF cronSchedule # NoExpr THEN cronSchedule
                         ELSE IF s.customSchedule # NoExpr THEN s.customSchedule
                         ELSE Expr("config", s.config.cronValid)
             timezone == IF isValidTimezone(s.config.timezone)
                         THEN s.config.timezone
                         ELSE "Asia/Jakarta"
             custom == IF cronSchedule # NoExpr THEN cronSchedule
                       ELSE s.customSchedule
         IN IF ~CronScheduleThrows(schedule, timezone)
            THEN [job |-> Job(schedule, timezone), custom |-> custom,
                  outcome |-> "installed", logged |-> FALSE,
                  schedule |-> schedule,
                  running |-> Append(stopped, Job(schedule, timezone))]
            ELSE IF ~CronScheduleThrows(schedule, "UTC")
                 THEN [job |-> Job(schedule, "UTC"), custom |-> custom,
                       outcome |-> "installed", logged |-> TRUE,
                       schedule |-> schedule,
                       running |-> Append(stopped, Job(schedule, "UTC"))]
                 ELSE [job |-> NoJob, custom |-> s.customSchedule,
                       outcome |-> "rejected", logged |-> TRUE,
                       schedule |-> schedule, running |-> stopped]

(* the state after a call of scheduleJob, with the call's result noted *)
AfterScheduleJob(s, cronSchedule, pcOk, pcRejected) ==
    LET r == scheduleJob(s, cronSchedule) IN
    [s EXCEPT !.scheduledJob = r.job,
              !.running = r.running,
              !.customSchedule = r.custom,
              !.errorLogged = @ \/ r.logged,
              !.results = Append(@, [outcome |-> r.outcome,
                                     timezone |-> s.config.timezone,
                                     schedule |-> r.schedule,
                                     job |-> r.job]),
              !.pc = IF r.outcome = "rejected" THEN pcRejected ELSE pcOk]

(* lines 82-92: data.schedule || null; a failure is only logged *)
loadCustomSchedule ==
    /\ sch.pc = "load"
    /\ sch' = [sch EXCEPT !.pc = "then",
                          !.customSchedule =
                              IF sch.file \in {"valid", "invalid"}
                              THEN Expr("file", sch.file = "valid")
                              ELSE NoExpr]

(* line 1911-1913: loadCustomSchedule().then(async () => scheduleJob()) *)
StartupThen ==
    /\ sch.pc = "then"
    /\ sch' = AfterScheduleJob(sch, NoExpr, "ready", "catch")

(* lines 1913-1916: .catch(async (err) => { logger.error; scheduleJob() }) *)
StartupCatch ==
    /\ sch.pc = "catch"
    /\ sch' = AfterScheduleJob([sch EXCEPT !.errorLogged = TRUE], NoExpr, "ready",
                               "unhandled")

(* the promise of the startup chain has rejected and nothing handles it:   *)
(* the runtime ends the process or only warns                              *)
UnhandledRejection ==
    /\ sch.pc = "unhandled"
    /\ \E ends \in BOOLEAN :
          sch' = IF ends
                 THEN [sch EXCEPT !.pc = "exited", !.process = "crashed",
                                  !.scheduledJob = NoJob, !.running = <<>>]
                 ELSE [sch EXCEPT !.pc = "ready"]

(* the button that enables the automatic backup, lines 1791-1808 *)
EnableAutoBackup ==
    /\ sch.pc = "ready"
    /\ sch.n < MaxScheduleCalls
    /\ sch.config.defaultChatId
    /\ sch' = AfterScheduleJob(
                  [sch EXCEPT !.running = StopJob(@, sch.scheduledJob),
                              !.scheduledJob = NoJob, !.n = @ + 1,
                              !.lastButton = "enable"],
                  NoExpr, "ready", "ready")

(* the button that disables it, lines 1809-1817 *)
DisableAutoBackup ==
    /\ sch.pc = "ready"
    /\ sch.n < MaxScheduleCalls
    /\ sch' = [sch EXCEPT !.running = StopJob(@, sch.scheduledJob),
                          !.scheduledJob = NoJob, !.n = @ + 1,
                          !.lastButton = "disable"]

(* a new time of day, lines 1305-1331: the expression is tried with        *)
(* cron.schedule first (a task with an empty callback, stopped at once),   *)
(* then stored, and the handler awaits saveCustomSchedule                  *)
SetSchedule ==
    /\ sch.pc = "ready"
    /\ sch.n < MaxScheduleCalls
    /\ sch.pending = NoExpr
    /\ LET expr == Expr("arg", TRUE) IN
       sch' = IF CronScheduleThrows(expr, sch.config.timezone)
              THEN [sch EXCEPT !.n = @ + 1]
              ELSE [sch EXCEPT !.customSchedule = expr, !.pending = expr,
                               !.n = @ + 1]

(* lines 1332-1346, after the await: the job is restarted with the new     *)
(* expression when one is installed at that moment                         *)
SetScheduleSaved ==
    /\ sch.pending # NoExpr
    /\ sch' = IF sch.scheduledJob.installed
              THEN AfterScheduleJob([sch EXCEPT !.pending = NoExpr], sch.pending,
                                    "ready", "ready")
              ELSE [sch EXCEPT !.pending = NoExpr]

ScheduleNext ==
    \/ loadCustomSchedule
    \/ StartupThen
    \/ StartupCatch
    \/ UnhandledRejection
    \/ EnableAutoBackup
    \/ DisableAutoBackup
    \/ SetSchedule
    \/ SetScheduleSaved

(* C26: with an invalid configured timezone scheduleJob still installs a   *)
(* job, which uses the default timezone Asia/Jakarta; with an invalid      *)
(* schedule expression no call of scheduleJob rejects, the startup chain   *)
(* does not end in an unhandled rejection, the failure is logged as an     *)
(* error and the process keeps running.                                    *)
C26_SchedulingInputTolerated ==
    /\ \A n \in 1..Len(sch.results) :
          /\ (sch.results[n].timezone = "invalid"
                /\ sch.results[n].outcome = "installed")
                => sch.results[n].job.timezone = "Asia/Jakarta"
          /\ sch.results[n].outcome # "rejected"
          /\ (sch.results[n].outcome # "skipped" /\ ~sch.results[n].schedule.valid)
                => sch.errorLogged
    /\ sch.pc # "unhandled"
    /\ sch.process = "running"

MaxWizardRuns == 2

MaxWizardInputs == 6

WizardTexts == {"", "kantor", "bad host", "22", "65536", "0.5"}

(* isValidHost: an IPv4 address with octets up to 255, or a host name of   *)
(* letters, digits, dots and hyphens                                       *)
isValidHost(host) == host \in {"kantor", "22", "65536", "0.5"}

(* Number(value), in tenths *)
NumberOf(value) ==
    CASE value = "22" -> [nan |-> FALSE, tenths |-> 220]
      [] value = "65536" -> [nan |-> FALSE, tenths |-> 655360]
      [] value = "0.5" -> [nan |-> FALSE, tenths |-> 5]
      [] value = "" -> [nan |-> FALSE, tenths |-> 0]
      [] OTHER -> [nan |-> TRUE, tenths |-> 0]

DefaultPort == [nan |-> FALSE, tenths |-> 220]

(* Number.isNaN(port) || port <= 0 || port > 65535 *)
PortRejected(port) == port.nan \/ port.tenths <= 0 \/ port.tenths > 655350

NoData ==
    [name |-> "", host |-> "", username |-> "", password |-> "", port |-> DefaultPort]

NoSession == [active |-> FALSE, step |-> "none", data |-> NoData]

VARIABLES wiz

wizardVars == <<wiz>>

IdleWizard ==
    [session |-> NoSession, adds |-> <<>>, inflight |-> 0, runs |-> 0, inputs |-> 0,
     settled |-> FALSE]

WizardInit == wiz = IdleWizard

(* sessions.set(chatId, {action, step: 'name', data: {}}); the session is  *)
(* cleared again when the prompt cannot be sent                            *)
startAddRouterFlow ==
    /\ wiz.runs < MaxWizardRuns
    /\ \E ok \in BOOLEAN :
          wiz' = [wiz EXCEPT !.session = IF ok
                                         THEN [active |-> TRUE, step |-> "name",
                                               data |-> NoData]
                                         ELSE NoSession,
                             !.adds = <<>>,
                             !.settled = FALSE,
                             !.runs = @ + 1]

(* the session after the text value at a step before the port step *)
FieldStep(session, value) ==
    CASE session.step = "name" ->
            IF value = "" THEN session
            ELSE [session EXCEPT !.data.name = value, !.step = "host"]
      [] session.step = "host" ->
            IF value = "" \/ ~isValidHost(value) THEN session
            ELSE [session EXCEPT !.data.host = value, !.step = "username"]
      [] session.step = "username" ->
            IF value = "" THEN session
            ELSE [session EXCEPT !.data.username = value, !.step = "password"]
      [] OTHER ->
            IF value = "" THEN session
            ELSE [session EXCEPT !.data.password = value, !.step = "port"]

(* handleSessionInput at the steps name, host, username, password *)
handleSessionInput(value) ==
    /\ wiz.session.active
    /\ wiz.session.step \in {"name", "host", "username", "password"}
    /\ wiz.inputs < MaxWizardInputs
    /\ wiz' = [wiz EXCEPT !.session = FieldStep(wiz.session, value),
                          !.inputs = @ + 1]

(* handleSessionInput at the port step: an invalid port leaves the session *)
(* as it is, a valid one is stored and addRouter(session.data) is awaited  *)
handlePortInput(value) ==
    /\ wiz.session.active
    /\ wiz.session.step = "port"
    /\ wiz.inputs < MaxWizardInputs
    /\ LET port == IF value # "" THEN NumberOf(value) ELSE DefaultPort
           data == [wiz.session.data EXCEPT !.port = port]
       IN wiz' = IF PortRejected(port)
                 THEN [wiz EXCEPT !.inputs = @ + 1]
                 ELSE [wiz EXCEPT !.session.data = data,
                                  !.adds = Append(@, data),
                                  !.inflight = @ + 1,
                                  !.inputs = @ + 1]

(* addRouter has resolved or rejected: the message, then the finally with  *)
(* clearSession                                                            *)
AddRouterSettled ==
    /\ wiz.inflight > 0
    /\ wiz' = [wiz EXCEPT !.inflight = @ - 1, !.session = NoSession,
                          !.settled = TRUE]

(* the timer of setSessionTimeout fires: clearSession *)
SessionTimeout ==
    /\ wiz.session.active
    /\ wiz' = [wiz EXCEPT !.session = NoSession]

WizardNext ==
    \/ startAddRouterFlow
    \/ \E value \in WizardTexts : handleSessionInput(value)
    \/ \E value \in WizardTexts : handlePortInput(value)
    \/ AddRouterSettled
    \/ SessionTimeout

WizardSteps == <<"name", "host", "username", "password", "port">>

(* the fields of the steps before step n are filled, the others empty *)
FilledUpTo(data, n) ==
    /\ (data.name # "") <=> n > 1
    /\ (data.host # "") <=> n > 2
    /\ (data.username # "") <=> n > 3
    /\ (data.password # "") <=> n > 4

PortInRange(port) ==
    ~port.nan /\ port.tenths % 10 = 0 /\ port.tenths >= 10 /\ port.tenths <= 655350

(* C27: the wizard goes through name, host, username, password, port in    *)
(* that order and stays on a step whose input is empty or invalid;         *)
(* addRouter is called only at the port step, at most once in a run of the *)
(* wizard, with non-empty name, host, username and password, a host that   *)
(* passed isValidHost and a port in 1..65535; once addRouter has settled   *)
(* the session is removed.                                                 *)
C27_WizardCommitsOnce ==
    /\ wiz.session.active
          => \E n \in 1..Len(WizardSteps) :
                /\ wiz.session.step = WizardSteps[n]
                /\ FilledUpTo(wiz.session.data, n)
                /\ wiz.session.data.host # "" => isValidHost(wiz.session.data.host)
    /\ \A n \in 1..Len(wiz.adds) :
          /\ FilledUpTo(wiz.adds[n], Len(WizardSteps))
          /\ isValidHost(wiz.adds[n].host)
          /\ PortInRange(wiz.adds[n].port)
    /\ Len(wiz.adds) <= 1
    /\ (wiz.settled /\ wiz.inflight = 0) => ~wiz.session.active

(***************************************************************************)
(* The polling_error handler of index.js.  Time is counted in minutes; the *)
(* clock Date.now() starts far more than five minutes after its zero.      *)
(***************************************************************************)
MaxPollErrors == 11

ResetAfter == 5

LogEvery == 10

(* Date.now() when the process starts *)
StartNow == 2 * ResetAfter

(* the errors the bot can emit: err.code, and whether the response has the *)
(* status 429                                                              *)
PollErrorInputs ==
    {[code |-> "EFATAL", rateLimit |-> FALSE],
     [code |-> "ETELEGRAM", rateLimit |-> FALSE],
     [code |-> "ETELEGRAM", rateLimit |-> TRUE]}

(* the time between two errors: none, or more than five minutes *)
GapInputs == {0, ResetAfter + 1}

VARIABLES poll

pollVars == <<poll>>

(* lastPollingError, pollingErrorCount, pollingErrorLastLog of the code;   *)
(* n the number of errors handled, run the number of errors of the same    *)
(* type in a row up to the last one with no gap of more than five minutes  *)
(* in it, logged whether the last error was logged                         *)
PollInit ==
    poll = [lastPollingError |-> "none", pollingErrorCount |-> 0,
            pollingErrorLastLog |-> 0, now |-> StartNow, n |-> 0, run |-> 0,
            lastCode |-> "none", logged |-> FALSE]

IdlePoll ==
    [lastPollingError |-> "none", pollingErrorCount |-> 0,
     pollingErrorLastLog |-> 0, now |-> 0, n |-> 0, run |-> 0,
     lastCode |-> "none", logged |-> FALSE]

(* bot.on('polling_error', ...) for the error err at the time now *)
PollingErrorHandler(p, err, now) ==
    LET errorKey == err.code
        reset == p.lastPollingError # errorKey
                    \/ now - p.pollingErrorLastLog > ResetAfter
        count == (IF reset THEN 0 ELSE p.pollingErrorCount) + 1
        logs == count = 0 \/ count % LogEvery = 0
    IN [p EXCEPT !.lastPollingError = IF reset THEN errorKey ELSE @,
                 !.pollingErrorCount =
                     IF logs /\ err.code # "EFATAL" /\ err.rateLimit THEN 0 ELSE count,
                 !.pollingErrorLastLog = IF logs THEN now ELSE @,
                 !.now = now,
                 !.logged = logs]

PollingError ==
    /\ poll.n < MaxPollErrors
    /\ \E err \in PollErrorInputs, gap \in GapInputs :
          poll' = [PollingErrorHandler(poll, err, poll.now + gap) EXCEPT
                      !.n = @ + 1,
                      !.lastCode = err.code,
                      !.run = IF err.code = poll.lastCode
                              THEN @ + 1
                              ELSE 1]

PollNext == PollingError

(* C30: the first error of a new error type and every 10th error of the    *)
(* same type in a row are logged, the others are not.                      *)
C30_PollingErrorsThrottled ==
    poll.n > 0 => (poll.logged <=> (poll.run = 1 \/ poll.run % LogEvery = 0))

(***************************************************************************)
(* The file list of a chat (sendBackupFilesList) and its delete buttons.   *)
(* An artifact pair is a number; the list shows the pairs on disk in the   *)
(* order of getBackupFiles.  Button i of a list message carries the key    *)
(* file_<page>_<i>; session.filePathMap maps the keys of the list rendered *)
(* last to paths, 0 standing for a key without an entry.                   *)
(***************************************************************************)
MaxPairs == 3
MaxLists == 4

VARIABLES browse

browseVars == <<browse>>

IdleBrowse == [files |-> <<>>, filePathMap |-> <<>>, shown |-> <<>>, deleted |-> <<>>]

BrowseInit ==
    \E n \in 0..MaxPairs :
        browse = [IdleBrowse EXCEPT !.files = [i \in 1..n |-> i]]

(* deleteBackupPair: both files of the pair of the given path are removed *)
deleteBackupPair(files, filePath) ==
    LET Other(f) == f # filePath IN SelectSeq(files, Other)

(* sendBackupFilesList for the pairs on disk: nothing but a message when   *)
(* there is no file; otherwise one delete button per pair, the map of      *)
(* their keys stored in the session in place of the earlier one            *)
sendBackupFilesList(b) ==
    IF b.files = <<>>
    THEN b
    ELSE [b EXCEPT !.filePathMap = b.files, !.shown = Append(@, b.files)]

(* the files_all callback or the file list of the menu *)
ShowFiles ==
    /\ Len(browse.shown) < MaxLists
    /\ browse' = sendBackupFilesList(browse)

(* session.filePathMap.get(indexKey) under an unexpired map *)
PathOf(b, i) == IF i \in 1..Len(b.filePathMap) THEN b.filePathMap[i] ELSE 0

(* the delete_backup callback of button i of the list message m *)
DeleteBackup(m, i) ==
    /\ Len(browse.shown) < MaxLists
    /\ m \in 1..Len(browse.shown)
    /\ i \in 1..Len(browse.shown[m])
    /\ LET filePath == PathOf(browse, i) IN
       IF filePath = 0
       THEN browse' = browse
       ELSE browse' = sendBackupFilesList(
                [browse EXCEPT
                    !.files = deleteBackupPair(@, filePath),
                    !.deleted = Append(@, [button |-> browse.shown[m][i],
                                           pair |-> filePath]),
                    !.filePathMap = [@ EXCEPT ![i] = 0]])

(* five minutes have passed since the last list: the map is dropped *)
ExpireFilePathMap ==
    /\ browse.filePathMap # <<>>
    /\ browse' = [browse EXCEPT !.filePathMap = <<>>]

BrowseNext ==
    \/ ShowFiles
    \/ \E m \in 1..MaxLists, i \in 1..MaxPairs : DeleteBackup(m, i)
    \/ ExpireFilePathMap

(* C35: a delete_backup callback deletes only the pair its button was      *)
(* rendered for.                                                           *)
C35_DeletesRenderedPair ==
    \A k \in 1..Len(browse.deleted) :
        browse.deleted[k].pair = browse.deleted[k].button

(***************************************************************************)
(* Two sendBackup calls that overlap (a manual trigger while a scheduled   *)
(* cycle is in flight), from the end of their device loops on.  They share *)
(* lastBackupMeta and routerFailureCounts; a call gives way to the other   *)
(* only at an await: the alert's sendMessage, the completion message, the  *)
(* group notification.  lastBackupMeta.cycle stands for the Date successAt *)
(* of that cycle; formatDate shows it to the minute.                       *)
(***************************************************************************)
MaxOverlap == 2

Overlapping == 1..MaxOverlap

(* the summaries a device loop can end with: one device asked for by     *)
(* name, or the two devices of the registry                               *)
OverlapSummaries ==
    {<<SuccessOutcome(<<"a">>)>>,
     <<FailureOutcome(<<"a">>, NoErr), FailureOutcome(<<"b">>, NoErr)>>}

(* the failure counts earlier cycles have left *)
OverlapCounts == {[n \in DeviceNames |-> v] : v \in {0, failureThreshold - 1}}

VARIABLES overlap

overlapVars == <<overlap>>

IdleOverlapCycle ==
    [pc |-> "loop", summary |-> <<>>, k |-> 0, successAt |-> 0, reportedAt |-> 0,
     groupAt |-> 0]

IdleOverlap ==
    [cycles |-> [c \in Overlapping |-> IdleOverlapCycle], groupChatId |-> FALSE,
     base |-> [n \in DeviceNames |-> 0], now |-> 1]

(* formatDate(lastBackupMeta.successAt): the minute of the completion of   *)
(* the cycle whose Date the record holds                                   *)
formatDate(o, meta) == o.cycles[meta.cycle].successAt

OverlapInit ==
    /\ routerFailureCounts \in OverlapCounts
    /\ \E g \in BOOLEAN :
          overlap = [IdleOverlap EXCEPT !.groupChatId = g, !.base = routerFailureCounts]
    /\ defaultChatId \in BOOLEAN
    /\ registry = <<>>
    /\ cyc = IdleCycle
    /\ started = 0
    /\ openSessions = {}
    /\ probe = [pc |-> "idle"]
    /\ lastBackupMeta = [cycle |-> 0, routers |-> <<>>]
    /\ alerts = <<>>
    /\ runHistory = <<>>
    /\ streak = [n \in DeviceNames |-> 0]

(* the failure-count loop of the call c from entry k to its next await:    *)
(* an alert's sendMessage, or the completion message, whose text is built  *)
(* from lastBackupMeta.successAt before the send is awaited                *)
OverlapEscalateFrom(c, k) ==
    LET e == UpdateFailureCounts(overlap.cycles[c].summary, k, routerFailureCounts,
                                 alerts, c)
    IN /\ routerFailureCounts' = e.counts
       /\ alerts' = e.alerts
       /\ overlap' = [overlap EXCEPT
             !.cycles[c].k = e.k,
             !.cycles[c].pc = IF e.wait THEN "alertWait" ELSE "summaryMsg",
             !.cycles[c].reportedAt =
                 IF e.wait THEN 0 ELSE formatDate(overlap, lastBackupMeta)]

(* the device loop of the call c has ended with the given summary, in the  *)
(* minute of the latest completion or in a later one                       *)
OverlapAggregate(c, summary, later) ==
    /\ overlap.cycles[c].pc = "loop"
    /\ lastBackupMeta' = [cycle |-> c, routers |-> summary]
    /\ LET e == UpdateFailureCounts(summary, 1, routerFailureCounts, alerts, c)
           timestamp == IF later THEN overlap.now + 1 ELSE overlap.now
       IN
       /\ routerFailureCounts' = e.counts
       /\ alerts' = e.alerts
       /\ overlap' = [overlap EXCEPT
             !.now = timestamp,
             !.cycles[c] =
                 [pc |-> IF e.wait THEN "alertWait" ELSE "summaryMsg",
                  summary |-> summary, k |-> e.k, successAt |-> timestamp,
                  reportedAt |-> IF e.wait THEN 0 ELSE timestamp, groupAt |-> 0]]
    /\ UNCHANGED <<registry, defaultChatId, cyc, started, runHistory, streak,
                   sessionVars>>

(* the alert's sendMessage of the call c has settled *)
OverlapAlertSent(c) ==
    /\ overlap.cycles[c].pc = "alertWait"
    /\ OverlapEscalateFrom(c, overlap.cycles[c].k + 1)
    /\ UNCHANGED <<registry, defaultChatId, cyc, started, lastBackupMeta, runHistory,
                   streak, sessionVars>>

(* the completion message of the call c has settled:                       *)
(* sendBackupNotificationToGroup reads lastBackupMeta?.successAt            *)
OverlapSummarySent(c) ==
    /\ overlap.cycles[c].pc = "summaryMsg"
    /\ overlap' = [overlap EXCEPT
          !.cycles[c].pc = IF overlap.groupChatId THEN "groupWait" ELSE "done",
          !.cycles[c].groupAt =
              IF overlap.groupChatId THEN formatDate(overlap, lastBackupMeta) ELSE 0]
    /\ UNCHANGED <<cycleVars, sessionVars>>

(* the group notification of the call c has settled *)
OverlapGroupSent(c) ==
    /\ overlap.cycles[c].pc = "groupWait"
    /\ overlap' = [overlap EXCEPT !.cycles[c].pc = "done"]
    /\ UNCHANGED <<cycleVars, sessionVars>>

OverlapNext ==
    \E c \in Overlapping :
        \/ \E summary \in OverlapSummaries, later \in BOOLEAN :
              OverlapAggregate(c, summary, later)
        \/ OverlapAlertSent(c)
        \/ OverlapSummarySent(c)
        \/ OverlapGroupSent(c)

(* C36: the completion time in the completion message and in the group     *)
(* notification of a cycle is the completion time of that cycle.           *)
C36_OwnCompletionTime ==
    \A c \in Overlapping :
        /\ overlap.cycles[c].reportedAt \in {0, overlap.cycles[c].successAt}
        /\ overlap.cycles[c].groupAt \in {0, overlap.cycles[c].successAt}

(* the entries of its summary the failure-count loop of c has gone through *)
AppliedOutcomes(c) ==
    LET cy == overlap.cycles[c] IN
    SubSeq(cy.summary, 1,
           IF cy.pc = "loop" THEN 0
           ELSE IF cy.pc = "alertWait" THEN cy.k
           ELSE Len(cy.summary))

(* one per-device update: a failed outcome adds one, a success gives 0 *)
CountAfter(counts, r) ==
    [counts EXCEPT ![r.name] = IF r.success THEN 0 ELSE @ + 1]

(* the counts after the updates of the sequences of rest in any order that *)
(* keeps the order of each                                                 *)
RECURSIVE SequentialCounts(_, _)
SequentialCounts(counts, rest) ==
    IF \A c \in DOMAIN rest : rest[c] = <<>>
    THEN {counts}
    ELSE UNION {SequentialCounts(CountAfter(counts, Head(rest[c])),
                                 [rest EXCEPT ![c] = Tail(@)]) :
                   c \in {d \in DOMAIN rest : rest[d] # <<>>}}

(* C37: for every interleaving of overlapping cycles the failure counts    *)
(* are the result of applying the per-device updates made so far, a failed *)
(* outcome adding one and a success giving 0, in some sequential order: no *)
(* update is lost.                                                         *)
C37_NoLostCounterUpdate ==
    routerFailureCounts
        \in SequentialCounts(overlap.base, [c \in Overlapping |-> AppliedOutcomes(c)])

C37_Witness ==
    /\ overlap.cycles[1].pc = "alertWait"
    /\ overlap.cycles[2].pc = "alertWait"
    /\ overlap.cycles[1].k = 1
    /\ overlap.cycles[2].k = 1
    /\ overlap.cycles[1].summary[1].name = overlap.cycles[2].summary[1].name
    /\ routerFailureCounts[<<"a">>] = overlap.base[<<"a">>] + 2

(***************************************************************************)
(* The specifications: the registry store, the cycles, the run history and *)
(* its statistics, each on its own.                                        *)
(***************************************************************************)
StoreParked ==
    /\ doc = ListDoc(<<>>)
    /\ initDoc = doc
    /\ committed = doc
    /\ tmp = Missing
    /\ procs = <<>>
    /\ writeQueue = <<>>
    /\ calls = <<>>
    /\ wfails = 0
    /\ crashes = 0
    /\ atCrash = NoWrite

CycleParked ==
    /\ registry = <<>>
    /\ defaultChatId = FALSE
    /\ cyc = IdleCycle
    /\ started = 0
    /\ openSessions = {}
    /\ probe = [pc |-> "idle"]
    /\ routerFailureCounts = [n \in DeviceNames |-> 0]
    /\ lastBackupMeta = [cycle |-> 0, routers |-> <<>>]
    /\ alerts = <<>>
    /\ runHistory = <<>>
    /\ streak = [n \in DeviceNames |-> 0]

BackupParked == job = IdleJob

SanitizeParked == san = IdleSanitize

ScheduleParked == sch = IdleSchedule

WizardParked == wiz = IdleWizard

PollParked == poll = IdlePoll

BrowseParked == browse = IdleBrowse

DirsParked == dirs = IdleDirs

OverlapParked == overlap = IdleOverlap

HistoryParked ==
    /\ history = ListDoc(<<>>)
    /\ historyInit = history
    /\ historyTmp = Missing
    /\ hprocs = <<>>
    /\ historyQueue = <<>>
    /\ hcalls = <<>>

vars ==
    <<storeVars, cycleVars, sessionVars, historyVars, backupVars,
      sanitizeVars, scheduleVars, wizardVars, pollVars, browseVars,
      overlapVars, dirsVars>>

Init ==
    /\ StoreInit
    /\ CycleParked
    /\ HistoryParked
    /\ BackupParked
    /\ SanitizeParked
    /\ ScheduleParked
    /\ WizardParked
    /\ PollParked
    /\ BrowseParked
    /\ OverlapParked
    /\ DirsParked

Next ==
    /\ StoreNext
    /\ UNCHANGED <<cycleVars, sessionVars, historyVars, backupVars,
                   sanitizeVars, scheduleVars, wizardVars, pollVars,
                   browseVars, overlapVars, dirsVars>>

Spec == Init /\ [][Next]_vars

CycleSpecInit ==
    /\ CycleInit
    /\ StoreParked
    /\ HistoryParked
    /\ BackupParked
    /\ SanitizeParked
    /\ ScheduleParked
    /\ WizardParked
    /\ PollParked
    /\ BrowseParked
    /\ OverlapParked
    /\ DirsParked

CycleSpecNext ==
    /\ (CycleNext \/ ProbeNext)
    /\ UNCHANGED <<storeVars, historyVars, backupVars, sanitizeVars,
                   scheduleVars, wizardVars, pollVars, browseVars,
                   overlapVars, dirsVars>>

CycleSpec == CycleSpecInit /\ [][CycleSpecNext]_vars

HistorySpecInit ==
    /\ HistoryInit
    /\ StoreParked
    /\ CycleParked
    /\ BackupParked
    /\ SanitizeParked
    /\ ScheduleParked
    /\ WizardParked
    /\ PollParked
    /\ BrowseParked
    /\ OverlapParked
    /\ DirsParked

HistorySpecNext ==
    /\ HistoryNext
    /\ UNCHANGED <<storeVars, cycleVars, sessionVars, backupVars,
                   sanitizeVars, scheduleVars, wizardVars, pollVars,
                   browseVars, overlapVars, dirsVars>>

HistorySpec == HistorySpecInit /\ [][HistorySpecNext]_vars

StatsSpecInit ==
    /\ StatsInit
    /\ StoreParked
    /\ CycleParked
    /\ BackupParked
    /\ SanitizeParked
    /\ ScheduleParked
    /\ WizardParked
    /\ PollParked
    /\ BrowseParked
    /\ OverlapParked
    /\ DirsParked

StatsSpecNext ==
    /\ StatsNext
    /\ UNCHANGED <<storeVars, cycleVars, sessionVars, backupVars,
                   sanitizeVars, scheduleVars, wizardVars, pollVars,
                   browseVars, overlapVars, dirsVars>>

StatsSpec == StatsSpecInit /\ [][StatsSpecNext]_vars

BackupSpecInit ==
    /\ BackupInit
    /\ StoreParked
    /\ CycleParked
    /\ HistoryParked
    /\ SanitizeParked
    /\ ScheduleParked
    /\ WizardParked
    /\ PollParked
    /\ BrowseParked
    /\ OverlapParked
    /\ DirsParked

BackupSpecNext ==
    /\ BackupNext
    /\ UNCHANGED <<storeVars, cycleVars, sessionVars, historyVars,
                   sanitizeVars, scheduleVars, wizardVars, pollVars,
                   browseVars, overlapVars, dirsVars>>

BackupSpec == BackupSpecInit /\ [][BackupSpecNext]_vars

SanitizeSpecInit ==
    /\ SanitizeInit
    /\ StoreParked
    /\ CycleParked
    /\ HistoryParked
    /\ BackupParked
    /\ ScheduleParked
    /\ WizardParked
    /\ PollParked
    /\ BrowseParked
    /\ OverlapParked
    /\ DirsParked

SanitizeSpecNext ==
    /\ SanitizeNext
    /\ UNCHANGED <<storeVars, cycleVars, sessionVars, historyVars,
                   backupVars, scheduleVars, wizardVars, pollVars,
                   browseVars, overlapVars, dirsVars>>

SanitizeSpec == SanitizeSpecInit /\ [][SanitizeSpecNext]_vars

ScheduleSpecInit ==
    /\ ScheduleInit
    /\ StoreParked
    /\ CycleParked
    /\ HistoryParked
    /\ BackupParked
    /\ SanitizeParked
    /\ WizardParked
    /\ PollParked
    /\ BrowseParked
    /\ OverlapParked
    /\ DirsParked

ScheduleSpecNext ==
    /\ ScheduleNext
    /\ UNCHANGED <<storeVars, cycleVars, sessionVars, historyVars,
                   backupVars, sanitizeVars, wizardVars, pollVars,
                   browseVars, overlapVars, dirsVars>>

ScheduleSpec == ScheduleSpecInit /\ [][ScheduleSpecNext]_vars

WizardSpecInit ==
    /\ WizardInit
    /\ StoreParked
    /\ CycleParked
    /\ HistoryParked
    /\ BackupParked
    /\ SanitizeParked
    /\ ScheduleParked
    /\ PollParked
    /\ BrowseParked
    /\ OverlapParked
    /\ DirsParked

WizardSpecNext ==
    /\ WizardNext
    /\ UNCHANGED <<storeVars, cycleVars, sessionVars, historyVars,
                   backupVars, sanitizeVars, scheduleVars, pollVars,
                   browseVars, overlapVars, dirsVars>>

WizardSpec == WizardSpecInit /\ [][WizardSpecNext]_vars

PollSpecInit ==
    /\ PollInit
    /\ StoreParked
    /\ CycleParked
    /\ HistoryParked
    /\ BackupParked
    /\ SanitizeParked
    /\ ScheduleParked
    /\ WizardParked
    /\ BrowseParked
    /\ OverlapParked
    /\ DirsParked

PollSpecNext ==
    /\ PollNext
    /\ UNCHANGED <<storeVars, cycleVars, sessionVars, historyVars,
                   backupVars, sanitizeVars, scheduleVars, wizardVars,
                   browseVars, overlapVars, dirsVars>>

PollSpec == PollSpecInit /\ [][PollSpecNext]_vars

BrowseSpecInit ==
    /\ BrowseInit
    /\ StoreParked
    /\ CycleParked
    /\ HistoryParked
    /\ BackupParked
    /\ SanitizeParked
    /\ ScheduleParked
    /\ WizardParked
    /\ PollParked
    /\ OverlapParked
    /\ DirsParked

BrowseSpecNext ==
    /\ BrowseNext
    /\ UNCHANGED <<storeVars, cycleVars, sessionVars, historyVars,
                   backupVars, sanitizeVars, scheduleVars, wizardVars,
                   pollVars, overlapVars, dirsVars>>

BrowseSpec == BrowseSpecInit /\ [][BrowseSpecNext]_vars

OverlapSpecInit ==
    /\ OverlapInit
    /\ StoreParked
    /\ HistoryParked
    /\ BackupParked
    /\ SanitizeParked
    /\ ScheduleParked
    /\ WizardParked
    /\ PollParked
    /\ BrowseParked
    /\ DirsParked

OverlapSpecNext ==
    /\ OverlapNext
    /\ UNCHANGED <<storeVars, historyVars, backupVars, sanitizeVars,
                   scheduleVars, wizardVars, pollVars, browseVars,
                   dirsVars>>

OverlapSpec == OverlapSpecInit /\ [][OverlapSpecNext]_vars

DirsSpecInit ==
    /\ DirsInit
    /\ StoreParked
    /\ CycleParked
    /\ HistoryParked
    /\ BackupParked
    /\ SanitizeParked
    /\ ScheduleParked
    /\ WizardParked
    /\ PollParked
    /\ BrowseParked
    /\ OverlapParked

DirsSpecNext ==
    /\ DirsNext
    /\ UNCHANGED <<storeVars, cycleVars, sessionVars, historyVars,
                   backupVars, sanitizeVars, scheduleVars, wizardVars,
                   pollVars, browseVars, overlapVars>>

DirsSpec == DirsSpecInit /\ [][DirsSpecNext]_vars

====
